---- MODULE Spec2Model ----
(***************************************************************************)
(* Model of the AustArch ingestion pipeline (src/ingest.py): field         *)
(* normalisation, site deduplication, the reference cache and the          *)
(* savepoint-per-row batch loader, over a relational store with an outer   *)
(* transaction.                                                            *)
(*                                                                         *)
(* Representation.  A text is a sequence of one-character strings.  A CSV  *)
(* field that is missing (None) and an empty field ('') are both the empty *)
(* sequence: every use in the source is `not value` or `value or ''`.      *)
(* A Python float is a record [k, v]: k = "num" with v the value in tenths *)
(* (one fractional digit is kept), k = "inf" with v the sign, k = "nan",   *)
(* and Python's None is k = "none".  Row ids are positive integers drawn   *)
(* from sequences that rollbacks do not rewind; the null id is 0.          *)
(***************************************************************************)
EXTENDS Integers, Sequences, FiniteSets, TLC

\* ------------------------------------------------------------------ texts

UpperLetters == <<"A","B","C","D","E","F","G","H","I","J","K","L","M",
                  "N","O","P","Q","R","S","T","U","V","W","X","Y","Z">>

LowerLetters == <<"a","b","c","d","e","f","g","h","i","j","k","l","m",
                  "n","o","p","q","r","s","t","u","v","w","x","y","z">>

Digits == <<"0","1","2","3","4","5","6","7","8","9">>

\* str.isspace / the regular expression class \s
IsSpace(c) == c \in {" ", "\t", "\n", "\r"}

UpperChar(c) ==
    IF \E i \in DOMAIN LowerLetters : LowerLetters[i] = c
    THEN UpperLetters[CHOOSE i \in DOMAIN LowerLetters : LowerLetters[i] = c]
    ELSE c

LowerChar(c) ==
    IF \E i \in DOMAIN UpperLetters : UpperLetters[i] = c
    THEN LowerLetters[CHOOSE i \in DOMAIN UpperLetters : UpperLetters[i] = c]
    ELSE c

Upper(s) == [i \in DOMAIN s |-> UpperChar(s[i])]

Lower(s) == [i \in DOMAIN s |-> LowerChar(s[i])]

RECURSIVE LStrip(_)
LStrip(s) == IF s # <<>> /\ IsSpace(Head(s)) THEN LStrip(Tail(s)) ELSE s

RECURSIVE RStrip(_)
RStrip(s) ==
    IF s # <<>> /\ IsSpace(s[Len(s)]) THEN RStrip(SubSeq(s, 1, Len(s) - 1)) ELSE s

\* str.strip()
Strip(s) == RStrip(LStrip(s))

\* re.sub(r'\s+', '', s)
RemoveWhitespace(s) == LET keep(c) == ~IsSpace(c) IN SelectSeq(s, keep)

\* str.replace(ch, '')
RemoveChar(s, ch) == LET keep(c) == c # ch IN SelectSeq(s, keep)

\* ---------------------------------------------------------------- numbers

None == [k |-> "none", v |-> 0]

Num(n) == [k |-> "num", v |-> n]

Inf(sign) == [k |-> "inf", v |-> sign]

NaN == [k |-> "nan", v |-> 0]

\* a Python int
IntVal(n) == [k |-> "int", v |-> n]

IsDigit(c) == \E i \in DOMAIN Digits : Digits[i] = c

DigitVal(c) == (CHOOSE i \in DOMAIN Digits : Digits[i] = c) - 1

AllDigits(s) == \A i \in DOMAIN s : IsDigit(s[i])

RECURSIVE DigitsVal(_)
DigitsVal(s) ==
    IF s = <<>> THEN 0 ELSE DigitsVal(SubSeq(s, 1, Len(s) - 1)) * 10 + DigitVal(s[Len(s)])

DotAt(s) == IF \E i \in DOMAIN s : s[i] = "." THEN CHOOSE i \in DOMAIN s : s[i] = "." ELSE 0

\* float() of an unsigned token: digits with an optional fraction, inf, nan.
UnsignedFloat(t) ==
    LET d    == DotAt(t)
        ip   == IF d = 0 THEN t ELSE SubSeq(t, 1, d - 1)
        fp   == IF d = 0 THEN <<>> ELSE SubSeq(t, d + 1, Len(t))
        low  == Lower(t)
    IN  IF low \in {<<"i","n","f">>, <<"i","n","f","i","n","i","t","y">>} THEN Inf(1)
        ELSE IF low = <<"n","a","n">> THEN NaN
        ELSE IF AllDigits(ip) /\ AllDigits(fp) /\ Len(ip) + Len(fp) > 0
        THEN Num(DigitsVal(ip) * 10 + (IF fp = <<>> THEN 0 ELSE DigitVal(fp[1])))
        ELSE None

Negate(x) ==
    IF x.k = "num" THEN Num(0 - x.v)
    ELSE IF x.k = "inf" THEN Inf(0 - x.v)
    ELSE x

\* float(text): ValueError is the None result
PyFloat(t) ==
    IF t = <<>> THEN None
    ELSE IF Head(t) = "-" THEN Negate(UnsignedFloat(Tail(t)))
    ELSE IF Head(t) = "+" THEN UnsignedFloat(Tail(t))
    ELSE UnsignedFloat(t)

FloatSentinels ==
    { <<>>, <<"N","A">>, <<"N","/","A">>, <<"-">>,
      <<"n","u","l","l">>, <<"N","U","L","L">> }

parse_float(value) ==
    IF value = <<>> \/ Strip(value) \in FloatSentinels THEN None
    ELSE PyFloat(RemoveChar(Strip(value), ","))

\* an exception leaves the function (int() of an infinity raises OverflowError, of a
\* not-a-number ValueError; neither is caught)
Raised == [k |-> "raise", v |-> 0]

\* int(f): truncation toward zero of a value in tenths
PyInt(f) ==
    IF f.k = "num" THEN IntVal(IF f.v >= 0 THEN f.v \div 10 ELSE 0 - ((0 - f.v) \div 10))
    ELSE Raised

parse_int(value) ==
    IF parse_float(value) # None THEN PyInt(parse_float(value)) ELSE None

\* -------------------------------------------------------------- lab codes

NoCode == <<>>

LabCodeSentinels == { <<>>, <<"N","A">>, <<"-">> }

MinLabCodeLen == 3

\* variant: letter case is kept
parse_lab_code_keeps_case(code) ==
    IF code = <<>> \/ Strip(code) \in LabCodeSentinels THEN NoCode
    ELSE LET cleaned == RemoveWhitespace(Strip(code))
         IN  IF Len(cleaned) >= MinLabCodeLen THEN cleaned ELSE NoCode

\* variant: the length test is off by one
parse_lab_code_short(code) ==
    IF code = <<>> \/ Strip(code) \in LabCodeSentinels THEN NoCode
    ELSE LET cleaned == RemoveWhitespace(Upper(Strip(code)))
         IN  IF Len(cleaned) >= MinLabCodeLen - 1 THEN cleaned ELSE NoCode

parse_lab_code(code) ==
    IF code = <<>> \/ Strip(code) \in LabCodeSentinels THEN NoCode
    ELSE LET cleaned == RemoveWhitespace(Upper(Strip(code)))
         IN  IF Len(cleaned) >= MinLabCodeLen THEN cleaned ELSE NoCode

\* ------------------------------------------------------------ coordinates

lat_min == -437

lat_max == -100

lon_min == 1120

lon_max == 1540

\* variant: every pair of numbers is accepted
validate_coordinates_unbounded(lat, lon) ==
    /\ lat.k = "num" /\ lon.k = "num"

validate_coordinates(lat, lon) ==
    /\ lat.k = "num" /\ lon.k = "num"
    /\ lat_min <= lat.v /\ lat.v <= lat_max
    /\ lon_min <= lon.v /\ lon.v <= lon_max

\* ------------------------------------------------------- field normalisers

\* `sub in s`
Contains(s, sub) == \E i \in 0 .. Len(s) - Len(sub) : SubSeq(s, i + 1, i + Len(sub)) = sub

\* s.startswith(prefix)
StartsWith(s, prefix) == Len(s) >= Len(prefix) /\ SubSeq(s, 1, Len(prefix)) = prefix

Least(S) == CHOOSE i \in S : \A j \in S : i <= j

\* the mapping in the order the dictionary is written (and iterated)
MATERIAL_MAPPING ==
    << <<<<"c","h","a","r","c","o","a","l">>, "CHARCOAL">>,
       <<<<"w","o","o","d">>, "WOOD">>,
       <<<<"b","o","n","e">>, "BONE">>,
       <<<<"b","u","r","n","t"," ","b","o","n","e">>, "BONE_BURNT">>,
       <<<<"c","a","l","c","i","n","e","d"," ","b","o","n","e">>, "BONE_BURNT">>,
       <<<<"s","h","e","l","l">>, "SHELL_UNSPEC">>,
       <<<<"m","a","r","i","n","e"," ","s","h","e","l","l">>, "SHELL_MARINE">>,
       <<<<"f","r","e","s","h","w","a","t","e","r"," ","s","h","e","l","l">>, "SHELL_FRESHWATER">>,
       <<<<"l","a","n","d"," ","s","n","a","i","l">>, "SHELL_TERRESTRIAL">>,
       <<<<"s","e","e","d">>, "SEED">>,
       <<<<"s","e","e","d","s">>, "SEED">>,
       <<<<"p","l","a","n","t">>, "SEED">>,
       <<<<"p","e","a","t">>, "PEAT">>,
       <<<<"s","o","i","l">>, "SOIL_ORG">>,
       <<<<"s","e","d","i","m","e","n","t">>, "SEDIMENT">>,
       <<<<"o","r","g","a","n","i","c">>, "SOIL_ORG">>,
       <<<<"h","a","i","r">>, "HAIR">>,
       <<<<"e","g","g","s","h","e","l","l">>, "EGGSHELL">>,
       <<<<"e","m","u"," ","e","g","g","s","h","e","l","l">>, "EGGSHELL">>,
       <<<<"r","e","s","i","n">>, "RESIN">>,
       <<<<"f","i","b","r","e">>, "FIBER">>,
       <<<<"f","i","b","e","r">>, "FIBER">>,
       <<<<"d","u","n","g">>, "DUNG">>,
       <<<<"q","u","a","r","t","z">>, "QUARTZ">>,
       <<<<"f","e","l","d","s","p","a","r">>, "FELDSPAR">>,
       <<<<"s","a","n","d">>, "SAND">>,
       <<<<"c","a","l","c","i","t","e">>, "CALCITE">>,
       <<<<"t","o","o","t","h">>, "TOOTH_ENAMEL">>,
       <<<<"e","n","a","m","e","l">>, "TOOTH_ENAMEL">>,
       <<<<"h","e","a","r","t","h">>, "HEARTH">>,
       <<<<"c","e","r","a","m","i","c">>, "CERAMIC">>,
       <<<<"p","o","t","t","e","r","y">>, "CERAMIC">> >>

normalize_material(description) ==
    IF description = <<>> THEN "UNKNOWN"
    ELSE LET desc_lower == Strip(Lower(description))
             hits == {i \in DOMAIN MATERIAL_MAPPING :
                        Contains(desc_lower, MATERIAL_MAPPING[i][1])}
         IN  IF hits = {} THEN "OTHER" ELSE MATERIAL_MAPPING[Least(hits)][2]

METHOD_MAPPING ==
    << <<<<"r","a","d","i","o","c","a","r","b","o","n">>, "C14">>,
       <<<<"c","1","4">>, "C14">>,
       <<<<"a","m","s">>, "AMS">>,
       <<<<"a","c","c","e","l","e","r","a","t","o","r">>, "AMS">>,
       <<<<"c","o","n","v","e","n","t","i","o","n","a","l">>, "CONV">>,
       <<<<"o","s","l">>, "OSL">>,
       <<<<"o","p","t","i","c","a","l","l","y"," ","s","t","i","m","u","l","a","t","e","d">>, "OSL">>,
       <<<<"t","l">>, "TL">>,
       <<<<"t","h","e","r","m","o","l","u","m","i","n","e","s","c","e","n","c","e">>, "TL">>,
       <<<<"i","r","s","l">>, "IRSL">>,
       <<<<"u","-","t","h">>, "U-TH">>,
       <<<<"u","r","a","n","i","u","m">>, "U-TH">>,
       <<<<"u","-","s","e","r","i","e","s">>, "U-TH">>,
       <<<<"e","s","r">>, "ESR">>,
       <<<<"e","l","e","c","t","r","o","n"," ","s","p","i","n">>, "ESR">>,
       <<<<"a","a","r">>, "AAR">>,
       <<<<"a","m","i","n","o"," ","a","c","i","d">>, "AAR">>,
       <<<<"c","o","s","m","o","g","e","n","i","c">>, "COSMO">> >>

AmsLabPrefixes ==
    {<<"O","Z">>, <<"S","A","N","U">>, <<"A","N","U","A">>, <<"C","A","M","S">>, <<"A","A","-">>, <<"B","E","T","A">>, <<"U","B","A">>, <<"U","C","I","A","M","S">>, <<"D","-","A","M","S">>}

ConventionalLabPrefixes ==
    {<<"I","-">>, <<"G","X","-">>, <<"G","A","K","-">>, <<"S","U","A","-">>, <<"A","N","U","-">>, <<"N","Z","-">>, <<"G","R","N","-">>, <<"W","-">>}

\* the tail of determine_method: the lab code's prefix, else generic radiocarbon
MethodFromLabCode(lab_code) ==
    IF lab_code # <<>> /\ \E p \in AmsLabPrefixes : StartsWith(Upper(lab_code), p) THEN "AMS"
    ELSE IF lab_code # <<>> /\ \E p \in ConventionalLabPrefixes : StartsWith(Upper(lab_code), p)
    THEN "CONV"
    ELSE "C14"

\* variant: the lab code's prefix is consulted before the text
determine_method_prefix_first(method_str, technique_str, lab_code) ==
    LET combined == Lower(method_str \o <<" ">> \o technique_str)
    IN  IF MethodFromLabCode(lab_code) # "C14" THEN MethodFromLabCode(lab_code)
        ELSE IF Contains(combined, <<"o","s","l">>) THEN "OSL"
        ELSE IF Contains(combined, <<"t","l">>) THEN "TL"
        ELSE IF Contains(combined, <<"i","r","s","l">>) THEN "IRSL"
        ELSE IF Contains(combined, <<"u","r","a","n","i","u","m">>) THEN "U-TH"
        ELSE IF Contains(combined, <<"e","s","r">>) THEN "ESR"
        ELSE IF Contains(combined, <<"a","a","r">>) THEN "AAR"
        ELSE "C14"

determine_method(method_str, technique_str, lab_code) ==
    LET combined == Lower(method_str \o <<" ">> \o technique_str)
    IN  IF Contains(combined, <<"o","s","l">>) \/ Contains(combined, <<"o","p","t","i","c","a","l","l","y"," ","s","t","i","m","u","l","a","t","e","d">>)
        THEN "OSL"
        ELSE IF Contains(combined, <<"t","l">>) \/ Contains(combined, <<"t","h","e","r","m","o","l","u","m","i","n","e","s","c","e","n","c","e">>)
        THEN "TL"
        ELSE IF Contains(combined, <<"i","r","s","l">>) THEN "IRSL"
        ELSE IF \/ Contains(combined, <<"u","-","t","h">>)
                \/ Contains(combined, <<"u","r","a","n","i","u","m">>)
                \/ Contains(combined, <<"u","-","s","e","r","i","e","s">>)
        THEN "U-TH"
        ELSE IF Contains(combined, <<"e","s","r">>) \/ Contains(combined, <<"e","l","e","c","t","r","o","n"," ","s","p","i","n">>)
        THEN "ESR"
        ELSE IF Contains(combined, <<"a","a","r">>) \/ Contains(combined, <<"a","m","i","n","o"," ","a","c","i","d">>)
        THEN "AAR"
        ELSE IF Contains(combined, <<"a","m","s">>) \/ Contains(combined, <<"a","c","c","e","l","e","r","a","t","o","r">>)
        THEN "AMS"
        ELSE IF Contains(combined, <<"c","o","n","v","e","n","t","i","o","n","a","l">>) \/ Contains(combined, <<"r","a","d","i","o","m","e","t","r","i","c">>)
        THEN "CONV"
        ELSE MethodFromLabCode(lab_code)

DepthSentinels == {<<>>, <<"N","A">>, <<"N","/","A">>, <<"-">>, <<"s","u","r","f","a","c","e">>}

\* str.split('-')[0]: the text before the first hyphen
BeforeHyphen(s) == SubSeq(s, 1, Least({i \in DOMAIN s : s[i] = "-"}) - 1)

\* str.split('-')[1]: the text between the first hyphen and the next (or the end)
AfterHyphen(s) ==
    LET rest == SubSeq(s, Least({i \in DOMAIN s : s[i] = "-"}) + 1, Len(s))
    IN  IF Contains(rest, <<"-">>) THEN BeforeHyphen(rest) ELSE rest

\* variant: the bottom bound of a range is returned
parse_depth_bottom(depth_str) ==
    IF depth_str = <<>> \/ Strip(depth_str) \in DepthSentinels THEN None
    ELSE LET s == Lower(Strip(depth_str))
         IN  IF Contains(s, <<"-">>) /\ parse_float(AfterHyphen(s)) # None
             THEN parse_float(AfterHyphen(s))
             ELSE parse_float(s)

parse_depth(depth_str) ==
    IF depth_str = <<>> \/ Strip(depth_str) \in DepthSentinels THEN None
    ELSE LET s == Lower(Strip(depth_str))
         IN  IF Contains(s, <<"-">>) /\ parse_float(BeforeHyphen(s)) # None
             THEN parse_float(BeforeHyphen(s))
             ELSE parse_float(s)

\* the regular expression class \w
IsWordChar(c) == IsDigit(c) \/ UpperChar(c) # c \/ LowerChar(c) # c \/ c = "_"

\* \b(19\d{2}|20\d{2})\b matches at position i
YearAt(text, i) ==
    /\ i + 3 <= Len(text)
    /\ <<text[i], text[i + 1]>> \in {<<"1","9">>, <<"2","0">>}
    /\ IsDigit(text[i + 2]) /\ IsDigit(text[i + 3])
    /\ i = 1 \/ ~IsWordChar(text[i - 1])
    /\ i + 3 = Len(text) \/ ~IsWordChar(text[i + 4])

\* re.sub(r'[,\.\(\)]+$', '', s)
RECURSIVE StripTrailingPunctuation(_)
StripTrailingPunctuation(s) ==
    IF s # <<>> /\ s[Len(s)] \in {",", ".", "(", ")"}
    THEN StripTrailingPunctuation(SubSeq(s, 1, Len(s) - 1))
    ELSE s

\* variant: the author keeps its trailing punctuation
parse_citation_keeps_punctuation(text) ==
    LET starts == {i \in DOMAIN text : YearAt(text, i)}
    IN  IF starts = {}
        THEN [citation |-> text, author |-> <<>>, year |-> None, title |-> <<>>]
        ELSE LET at == Least(starts)
             IN  [citation |-> text,
                  author   |-> Strip(SubSeq(text, 1, at - 1)),
                  year     |-> IntVal(DigitsVal(SubSeq(text, at, at + 3))),
                  title    |-> <<>>]

\* author and title: the empty text stands for None (an empty author is never kept)
parse_citation(text) ==
    LET starts == {i \in DOMAIN text : YearAt(text, i)}
    IN  IF starts = {}
        THEN [citation |-> text, author |-> <<>>, year |-> None, title |-> <<>>]
        ELSE LET at == Least(starts)
             IN  [citation |-> text,
                  author   |-> StripTrailingPunctuation(Strip(SubSeq(text, 1, at - 1))),
                  year     |-> IntVal(DigitsVal(SubSeq(text, at, at + 3))),
                  title    |-> <<>>]

\* ------------------------------------------------------------------ input

Row(lab, site, lat, lon, src) ==
    [LAB_CODE |-> lab, SITE |-> site, LATITUDE |-> lat, LONGITUDE |-> lon, SOURCE |-> src,
     AGE |-> <<>>, ERROR |-> <<>>, METHOD |-> <<>>, TECHNIQUE |-> <<>>,
     DATE_ISSUES |-> <<>>, NOTES |-> <<>>]

T_OZ1   == <<"O","Z","1">>
T_oz_1  == <<" ","o","z","\t","1">>
T_Wk2   == <<"W","k","2">>
T_ANU5  == <<"A","N","U","-","5">>
T_ab    == <<" ","a","b"," ">>
T_SA    == <<"S","A">>
T_s_a   == <<"s"," ","a">>
T_StabA == <<"S","\t","A">>
T_B     == <<"B">>
T_m30   == <<"-","3","0">>
T_130   == <<"1","3","0",".","0">>
T_m31   == <<"-","3","1",".","5">>
T_131   == <<"1","3","1">>
T_52    == <<"5","2",".","0">>
T_10    == <<"1","0",".","0">>
T_Smith == <<"S","m","i","t","h"," ","1","9","9","8">>
T_Jones == <<"J","o","n","e","s">>

\* The rows the data files are drawn from.
Pool ==
    { Row(T_OZ1,  T_SA,    <<>>,  <<>>,  T_Smith),
      Row(T_oz_1, T_s_a,   T_m30, T_130, <<>>),
      Row(T_Wk2,  T_s_a,   T_m31, T_131, T_Smith),
      Row(T_ANU5, T_B,     T_m30, T_130, T_Jones),
      Row(T_Wk2,  T_StabA, T_m30, <<>>,  T_Jones),
      Row(T_ANU5, T_StabA, T_m31, T_131, <<>>),
      Row(T_ab,   <<>>,    T_52,  T_10,  T_Smith),
      Row(T_ANU5, T_SA,    T_52,  T_10,  <<>>) }

MaxRows == 2

MaxFiles == 2

MaxRuns == 2

MaxFaults == 1

RECURSIVE SeqsUpTo(_, _)
SeqsUpTo(S, n) ==
    IF n = 0 THEN {<<>>}
    ELSE LET shorter == SeqsUpTo(S, n - 1)
         IN  shorter \cup {Append(q, x) : q \in {r \in shorter : Len(r) = n - 1}, x \in S}

DataFile(rows) == [reference |-> FALSE, rows |-> rows]

\* a file whose name contains 'citation' or 'reference'; its rows are never read
ReferenceFile == [reference |-> TRUE, rows |-> <<>>]

Files == {ReferenceFile} \cup {DataFile(rs) : rs \in SeqsUpTo(Pool, MaxRows)}

RECURSIVE RowCount(_)
RowCount(dir) == IF dir = <<>> THEN 0 ELSE Len(Head(dir).rows) + RowCount(Tail(dir))

Directories == {d \in SeqsUpTo(Files, MaxFiles) : RowCount(d) <= MaxRows}

\* ------------------------------------------- rows with the other columns

\* AGE column
AgeTexts ==
    { <<"5","0","0","0">>,
      <<"0">>,
      <<>>,
      <<"i","n","f">>,
      <<"n","a","n">>,
      <<"a","b","c">>,
      <<"1",",","5","0","0">>,
      <<"-","0",".","5">>,
      <<"1","2",".","7">>,
      <<"I","n","f","i","n","i","t","y">> }

\* ERROR column
ErrorTexts ==
    { <<"2","0","0">>,
      <<"0">>,
      <<"-","i","n","f">> }

\* METHOD column of the dated rows
DatedMethodTexts ==
    { <<"O","S","L">>,
      <<"T","h","e","r","m","o","l","u","m","i","n","e","s","c","e","n","c","e">>,
      <<"I","R","S","L">>,
      <<>>,
      <<"U","-","s","e","r","i","e","s">> }

\* DATE_ISSUES column
IssueTexts ==
    { <<>>,
      <<" ">>,
      <<"c","o","n","t","a","m","i","n","a","t","e","d">>,
      <<" ","o","l","d"," ","w","o","o","d"," ">> }

\* NOTES column
NoteTexts ==
    { <<>>,
      <<"R","e","j","e","c","t","e","d"," ","b","y"," ","l","a","b">>,
      <<"n","o"," ","p","r","o","b","l","e","m","s">>,
      <<"R","E","J","E","C","T">> }

DatedRow(method, age, error, issues, notes) ==
    [Row(T_Wk2, T_SA, <<>>, <<>>, <<>>) EXCEPT
       !.METHOD = method, !.AGE = age, !.ERROR = error,
       !.DATE_ISSUES = issues, !.NOTES = notes]

\* rows that differ in the method and the age columns, and rows that differ in the
\* quality columns
DatedPool ==
    {DatedRow(m, a, e, <<>>, <<>>) : m \in DatedMethodTexts, a \in AgeTexts, e \in ErrorTexts}
    \cup {DatedRow(<<>>, <<"5","0","0","0">>, <<"2","0","0">>, i, n) : i \in IssueTexts, n \in NoteTexts}

T_S_dot_A == <<"S","."," ","A">>

T_S_A == <<"S"," ","A">>

\* rows without a site name, with a latitude only, with a pair, with another pair and
\* with a pair out of bounds; and two rows whose site names differ in a full stop
SitePool ==
    { Row(T_OZ1,  <<>>, T_m30, <<>>,  <<>>),
      Row(T_Wk2,  <<>>, T_m30, T_130, <<>>),
      Row(T_ANU5, <<>>, T_m31, T_131, <<>>),
      Row(T_OZ1,  <<>>, T_52,  T_10,  <<>>),
      Row(T_OZ1,  T_S_dot_A, <<>>, <<>>, <<>>),
      Row(T_Wk2,  T_S_A,     <<>>, <<>>, <<>>) }

\* a directory of one file: a dated row, or up to MaxRows rows of the site pool
RecordDirectories ==
    {<<DataFile(<<r>>)>> : r \in DatedPool}
    \cup {<<DataFile(rs)>> : rs \in SeqsUpTo(SitePool, MaxRows) \ {<<>>}}

\* ------------------------------------------------- inputs of the normalisers

\* METHOD column
MethodTexts ==
    { <<"O","S","L">>,
      <<"T","L">>,
      <<"I","R","S","L">>,
      <<"U","r","a","n","i","u","m","-","s","e","r","i","e","s">>,
      <<"E","S","R">>,
      <<"A","A","R">>,
      <<"A","m","i","n","o"," ","a","c","i","d"," ","r","a","c","e","m","i","z","a","t","i","o","n">>,
      <<"T","h","e","r","m","o","l","u","m","i","n","e","s","c","e","n","c","e">>,
      <<"O","p","t","i","c","a","l","l","y"," ","s","t","i","m","u","l","a","t","e","d"," ","l","u","m","i","n","e","s","c","e","n","c","e">>,
      <<"R","a","d","i","o","c","a","r","b","o","n">>,
      <<"A","M","S">>,
      <<>> }

\* TECHNIQUE column
TechniqueTexts ==
    { <<>>,
      <<"A","M","S">>,
      <<"S","i","n","g","l","e"," ","g","r","a","i","n">> }

\* lab codes as parse_lab_code returns them, and none
LabCodes ==
    { <<"O","Z","1","2","3">>,
      <<"A","N","U","-","5">>,
      <<"W","K","2">>,
      <<"B","E","T","A","-","9">>,
      <<>> }

\* MATERIAL column
MaterialTexts ==
    { <<"b","u","r","n","t"," ","b","o","n","e">>,
      <<"B","u","r","n","t"," ","b","o","n","e"," ","f","r","a","g","m","e","n","t">>,
      <<"c","h","a","r","c","o","a","l"," ","a","n","d"," ","b","u","r","n","t"," ","b","o","n","e">>,
      <<" "," ","B","U","R","N","T"," ","B","O","N","E"," ">>,
      <<"b","o","n","e">>,
      <<"c","a","l","c","i","n","e","d"," ","b","o","n","e">>,
      <<"m","a","r","i","n","e"," ","s","h","e","l","l">>,
      <<"f","r","e","s","h","w","a","t","e","r"," ","s","h","e","l","l">>,
      <<"e","m","u"," ","e","g","g","s","h","e","l","l">>,
      <<"s","e","e","d","s">>,
      <<"f","l","i","n","t">>,
      <<>> }

\* DEPTH_FROM_SURFACE_CM column
DepthTexts ==
    { <<"1","0","-","2","0">>,
      <<"1","0"," ","-"," ","2","0">>,
      <<" ","1","0","-","2","0"," ">>,
      <<"s","u","r","f","a","c","e">>,
      <<"S","u","r","f","a","c","e">>,
      <<"1","5">>,
      <<"1","2",".","5">>,
      <<"0">>,
      <<>>,
      <<"N","A">>,
      <<"N","/","A">>,
      <<"-">>,
      <<"a","-","2","0">>,
      <<"1","0","-">>,
      <<"1","0","-","b">>,
      <<"5","-","1","0","-","1","5">>,
      <<"u","n","k","n","o","w","n">>,
      <<"1",",","0","0","0">> }

T_SmithExcavations ==
    <<"S","m","i","t","h",","," ","J","."," ","1","9","9","8","."," ","E","x","c","a","v","a","t","i","o","n","s"," ","a","t"," ","X",".">>

\* SOURCE column
CitationTexts ==
    { T_SmithExcavations,
      <<"J","o","n","e","s"," ","2","0","0","5">>,
      <<"S","m","i","t","h"," ","(","1","9","9","8",")">>,
      <<"n","o"," ","y","e","a","r"," ","g","i","v","e","n">>,
      <<>>,
      <<"B","r","o","w","n"," ","1","8","7","5">>,
      <<"A"," ","1","9","9","9"," ","a","n","d"," ","2","0","0","1">>,
      <<"S","m","i","t","h","1","9","9","8">>,
      <<"1","9","9","8">>,
      <<"L","e","e"," ","e","t"," ","a","l",".",","," ","2","0","1","0","a">>,
      <<"R","e","p","o","r","t"," ","1","2","3","4","5">> }

\* a call of a normaliser: its arguments, and its result once it has returned
NoCall == [fn |-> "none", args |-> <<>>, done |-> FALSE, result |-> <<>>]

\* no concurrent runs
NoRuns == <<>>

Pending(fn, args) == [fn |-> fn, args |-> args, done |-> FALSE, result |-> <<>>]

Returned(c, result) == [c EXCEPT !.done = TRUE, !.result = result]

\* ------------------------------------------------------------------ store

EmptyStore == [site |-> {}, sample |-> {}, age |-> {}, source |-> {}, batch |-> {}]

NullId == 0

IngestStats ==
    [sites_created |-> 0, sites_matched |-> 0, samples_created |-> 0,
     ages_created |-> 0, ages_skipped |-> 0, errors |-> <<>>]

NoLocals ==
    [lat |-> None, lon |-> None, lab_code |-> NoCode, site_id |-> NullId,
     site_new |-> FALSE, sample_id |-> NullId, source_id |-> NullId]

VARIABLES
    committed,    \* the store as other connections see it
    db,           \* the store as this connection's open transaction sees it
    sp,           \* the store at the latest SAVEPOINT row_savepoint
    seqs,         \* the id sequences of the tables (never rolled back)
    config,       \* Config.skip_existing, Config.validate_coordinates
    schema,       \* which constraints the store declares
    input,        \* the data directory: a sequence of files
    pc,           \* control position
    runNo,        \* runs started so far; the current run's batch id
    fileIdx,      \* position in csv_files
    rowIdx,       \* position in the file being read
    loc,          \* the local variables of process_radiocarbon_row
    stats,        \* IngestStats of the file being read
    total_stats,  \* IngestStats of the run
    cache,        \* ReferenceDataCache._sources
    faults,       \* exceptions the environment has raised so far
    rowStart,     \* history: store and statistics when the row's savepoint was taken
    hist,         \* history: the last two rows that ran to their end, newest last
    srcLog,       \* history: per citation, calls and statements of this run
    runHist,      \* history of this run: statements on import_batch, failed rows,
                  \* and the durable store when the run began
    runLog,       \* history: one entry per finished run
    call,         \* the normaliser call under examination, if any
    runs          \* two runs on connections of their own: per run its position, its
                  \* file, its uncommitted rows, its savepoint, locals and statistics

vars == <<committed, db, sp, seqs, config, schema, input, pc, runNo, fileIdx, rowIdx,
          loc, stats, total_stats, cache, faults, rowStart, hist, srcLog, runHist, runLog,
          call, runs>>

pipelineVars ==
    <<committed, db, sp, seqs, config, schema, input, pc, runNo, fileIdx, rowIdx, loc, stats,
      total_stats, cache, faults, rowStart, hist, srcLog, runHist, runLog, runs>>

\* the variables of the single run, which concurrent runs leave alone
soloVars ==
    <<db, sp, config, schema, input, pc, runNo, fileIdx, rowIdx, loc, stats, total_stats,
      cache, rowStart, hist, srcLog, runHist, runLog, call>>

rowVars == <<loc, stats>>

ghostVars == <<rowStart, hist, srcLog, runHist, runLog>>

\* what no step of a run changes
fixedVars == <<config, schema, input, call, runs>>

\* -------------------------------------------------------- site resolution

UnknownSite == <<"U","n","k","n","o","w","n"," ","S","i","t","e">>

\* (row.get('SITE') or 'Unknown Site').strip()
SiteNameOf(row) == Strip(IF row.SITE = <<>> THEN UnknownSite ELSE row.SITE)

\* LOWER(REPLACE(site_name, ' ', ''))
SqlNameKey(name) == Lower(RemoveChar(name, " "))

\* ' '.join(s.split()): runs of whitespace become one space, none at either end
RECURSIVE JoinWords(_)
JoinWords(s) ==
    IF s = <<>> THEN <<>>
    ELSE LET init == JoinWords(SubSeq(s, 1, Len(s) - 1))
             c    == s[Len(s)]
         IN  IF ~IsSpace(c)
             THEN (IF Len(s) > 1 /\ IsSpace(s[Len(s) - 1]) /\ init # <<>>
                   THEN init \o <<" ", c>> ELSE Append(init, c))
             ELSE init

\* lower case, re.sub(r'[^\w\s]', ' ', ...), whitespace joined; find_existing_site
\* computes it for the candidate name and uses it in no statement
normalize_site_name(name) ==
    JoinWords([i \in DOMAIN name |->
                 IF IsWordChar(LowerChar(name[i])) \/ IsSpace(name[i])
                 THEN LowerChar(name[i]) ELSE " "])

\* variant: the name match finds nothing
NameNeverMatches(d, name) == {}

\* SELECT id, latitude, longitude FROM site WHERE <name keys equal>
NameMatches(d, name) == {s \in d.site : SqlNameKey(s.site_name) = SqlNameKey(name)}

\* (existing_lat is None or existing_lon is None) and lat is not None and lon is not None
NeedsBackfill(s, lat, lon) ==
    (s.latitude = None \/ s.longitude = None) /\ lat # None /\ lon # None

\* UPDATE site SET latitude = %s, longitude = %s WHERE id = %s
UpdateSiteCoords(d, id, lat, lon) ==
    [d EXCEPT !.site = {IF s.id = id THEN [s EXCEPT !.latitude = lat, !.longitude = lon]
                        ELSE s : s \in d.site}]

\* the site's geom column: a point when both coordinates are stored
HasGeom(s) == s.latitude.k = "num" /\ s.longitude.k = "num"

\* ST_DWithin(geom::geography, point, 100): stored values are tenths of a degree
\* (11 km apart or more), so two distinct grid points are never within 100 m
WithinProximity(s, lat, lon) ==
    lat.k = "num" /\ lon.k = "num" /\ s.latitude = lat /\ s.longitude = lon

ProximityMatches(d, lat, lon) == {s \in d.site : HasGeom(s) /\ WithinProximity(s, lat, lon)}

\* ------------------------------------------------- the determination's columns

\* a float that is n / 1000.0
Thousandths(n) == [k |-> "milli", v |-> n]

\* a str, the empty one included (None is not a str)
Text(t) == [k |-> "text", v |-> t]

\* `if c14_age:` of an int or None
Truthy(x) == x # None /\ x.v # 0

\* parse_int of AGE or of ERROR raises
AgeRaises(row) == parse_int(row.AGE) = Raised \/ parse_int(row.ERROR) = Raised

\* variant: the notes are not consulted
IsRejectedByIssues(date_issues, notes) == Strip(date_issues) # <<>>

\* bool(date_issues.strip()) or 'reject' in notes.lower()
IsRejected(date_issues, notes) ==
    Strip(date_issues) # <<>> \/ Contains(Lower(notes), <<"r","e","j","e","c","t">>)

\* the values given to INSERT INTO age_determination that come from the row's columns
AgeColumns(row, lab_code) ==
    LET c14_age     == parse_int(row.AGE)
        c14_error   == parse_int(row.ERROR)
        method_code == determine_method(row.METHOD, row.TECHNIQUE, lab_code)
        lum         == method_code \in {"OSL", "TL", "IRSL"}
        radiocarbon == method_code \in {"C14", "AMS", "CONV"}
        is_rejected == IsRejected(row.DATE_ISSUES, row.NOTES)
    IN  [method           |-> method_code,
         c14_age          |-> IF radiocarbon THEN c14_age ELSE None,
         c14_error        |-> IF radiocarbon THEN c14_error ELSE None,
         lum_age_ka       |-> IF lum /\ Truthy(c14_age) THEN Thousandths(c14_age.v) ELSE None,
         lum_error_ka     |-> IF lum /\ Truthy(c14_error) THEN Thousandths(c14_error.v)
                              ELSE None,
         age_bp           |-> c14_age,
         age_error        |-> c14_error,
         is_rejected      |-> is_rejected,
         rejection_reason |-> IF is_rejected THEN Text(row.DATE_ISSUES) ELSE None]

\* ------------------------------------------------------------- statements

\* variant: the duplicate check finds nothing
LabCodeNeverExists(d, code) == FALSE

\* SELECT id FROM age_determination WHERE lab_code = %s
LabCodeExists(d, code) == \E a \in d.age : a.lab_code = code

\* the unique constraint on age_determination.lab_code, where the store declares it
UniqueViolation(d, code) == schema.lab_code_unique /\ \E a \in d.age : a.lab_code = code

\* variant: the cache is never consulted
CacheNeverHit(ch, c) == FALSE

\* `if citation in self._sources`
CacheHit(ch, c) == c \in DOMAIN ch

SourceByCitation(d, c) == {x \in d.source : x.citation = c}

InsertSiteRow(d, id, name, lat, lon, batch) ==
    [d EXCEPT !.site = @ \cup {[id |-> id, site_name |-> name, latitude |-> lat,
                                longitude |-> lon, batch |-> batch]}]

InsertSampleRow(d, id, site) ==
    [d EXCEPT !.sample = @ \cup {[id |-> id, site_id |-> site]}]

InsertSourceRow(d, id, c) ==
    [d EXCEPT !.source = @ \cup {[id |-> id, citation |-> c]}]

InsertAgeRow(d, id, sample, code, source, batch, columns) ==
    [d EXCEPT !.age = @ \cup {[id |-> id, sample_id |-> sample, lab_code |-> code,
                               source_id |-> source, batch |-> batch] @@ columns}]

InsertBatchRow(d, id) ==
    [d EXCEPT !.batch = @ \cup {[id |-> id, status |-> "running", record_count |-> None]}]

\* variant: the status is left as it was
CompleteBatchRowCountOnly(d, id, n) ==
    [d EXCEPT !.batch = {IF b.id = id THEN [b EXCEPT !.record_count = IntVal(n)]
                         ELSE b : b \in d.batch}]

\* UPDATE import_batch SET status = 'completed', record_count = %s WHERE id = %s
CompleteBatchRow(d, id, n) ==
    [d EXCEPT !.batch = {IF b.id = id
                         THEN [b EXCEPT !.status = "completed", !.record_count = IntVal(n)]
                         ELSE b : b \in d.batch}]

\* ------------------------------------------------------------ transaction

\* SAVEPOINT row_savepoint: the snapshot a later rollback returns to
TakeSavepoint(d) == d

\* variant: the rollback does not reach the sample table
RollbackKeepsSamples(d, s) == [s EXCEPT !.sample = d.sample]

\* variant: the rollback does not reach the site table
RollbackKeepsSites(d, s) == [s EXCEPT !.site = d.site]

\* ROLLBACK TO SAVEPOINT row_savepoint
RollbackToSavepoint(d, s) == s

\* variant: a released row is durable at once
ReleaseCommits(c, d) == d

\* RELEASE SAVEPOINT row_savepoint: keeps the row's writes in the open transaction
\* and makes nothing durable
ReleaseSavepoint(c, d) == c

\* conn.rollback(): the open transaction's writes are gone
RollbackTransaction(c, d) == c

\* conn.commit()
CommitTransaction(c, d) == d

\* ---------------------------------------------------------------- history

Citations == {r.SOURCE : r \in Pool} \ {<<>>}

NoSrcLog == [c \in Citations |-> [calls |-> 0, stmts |-> 0, first |-> 0]]

\* a call of get_or_create_source(c) that issues n statements
LogSourceCall(log, c, n) ==
    [log EXCEPT ![c] = [calls |-> @.calls + 1, stmts |-> @.stmts + n,
                        first |-> IF @.calls = 0 THEN n ELSE @.first]]

\* one more statement of the call in progress
LogSourceStmt(log, c) ==
    [log EXCEPT ![c] = [calls |-> @.calls, stmts |-> @.stmts + 1,
                        first |-> IF @.calls = 1 THEN @.first + 1 ELSE @.first]]

CurrentRow == input[fileIdx].rows[rowIdx]

Remember(outcome) ==
    LET e == [row |-> CurrentRow, outcome |-> outcome, lat |-> loc.lat, lon |-> loc.lon,
              site_id |-> loc.site_id, site_new |-> loc.site_new]
    IN  IF Len(hist) < 2 THEN Append(hist, e) ELSE <<hist[2], e>>

NoRunHist ==
    [batch_inserts |-> 0, batch_updates |-> 0, failed_rows |-> 0, store_before |-> EmptyStore]

RunEntry(outcome, st, store) ==
    [outcome |-> outcome, stats |-> st, ages |-> Cardinality(store.age), batch |-> runNo]

\* ------------------------------------------------------------------- Init

InitPipeline ==
    /\ committed = EmptyStore
    /\ db = EmptyStore
    /\ sp = EmptyStore
    /\ seqs = [site |-> 0, sample |-> 0, age |-> 0, source |-> 0]
    /\ pc = "idle"
    /\ runNo = 0
    /\ fileIdx = 1
    /\ rowIdx = 1
    /\ loc = NoLocals
    /\ stats = IngestStats
    /\ total_stats = IngestStats
    /\ cache = <<>>
    /\ faults = 0
    /\ rowStart = [db |-> EmptyStore, stats |-> IngestStats]
    /\ hist = <<>>
    /\ srcLog = NoSrcLog
    /\ runHist = NoRunHist
    /\ runLog = <<>>

Init ==
    /\ InitPipeline
    /\ config \in [skip_existing : BOOLEAN, validate_coordinates : BOOLEAN]
    /\ schema \in [lab_code_unique : BOOLEAN]
    /\ input \in Directories
    /\ call = NoCall
    /\ runs = NoRuns

\* ---------------------------------------------------------- run_ingestion

\* `if not csv_files: return`: no connection is opened
RunNoFiles ==
    /\ pc = "idle" /\ runNo < MaxRuns
    /\ input = <<>>
    /\ runNo' = runNo + 1
    /\ runLog' = Append(runLog, [RunEntry("no_files", IngestStats, committed)
                                  EXCEPT !.batch = runNo + 1])
    /\ UNCHANGED <<committed, db, sp, seqs, fixedVars, pc, fileIdx, rowIdx, rowVars,
                   total_stats, cache, faults, rowStart, hist, srcLog, runHist>>

\* connect, INSERT INTO import_batch ... 'running', ReferenceDataCache(cursor)
BeginRun ==
    /\ pc = "idle" /\ runNo < MaxRuns
    /\ input # <<>>
    /\ runNo' = runNo + 1
    /\ db' = InsertBatchRow(committed, runNo + 1)
    /\ cache' = <<>>
    /\ total_stats' = IngestStats
    /\ fileIdx' = 1
    /\ pc' = "next_file"
    /\ srcLog' = NoSrcLog
    /\ runHist' = [NoRunHist EXCEPT !.batch_inserts = 1, !.store_before = committed]
    /\ hist' = <<>>
    /\ UNCHANGED <<committed, sp, seqs, fixedVars, rowIdx, rowVars, faults, rowStart,
                   runLog>>

AddStats(t, st) ==
    [sites_created   |-> t.sites_created + st.sites_created,
     sites_matched   |-> t.sites_matched + st.sites_matched,
     samples_created |-> t.samples_created + st.samples_created,
     ages_created    |-> t.ages_created + st.ages_created,
     ages_skipped    |-> t.ages_skipped + st.ages_skipped,
     errors          |-> t.errors \o st.errors]

\* for filepath in csv_files: skip reference lists, open the next data file
NextFile ==
    /\ pc = "next_file"
    /\ \/ /\ fileIdx > Len(input)
          /\ pc' = "finalize"
          /\ UNCHANGED <<fileIdx, rowIdx, stats>>
       \/ /\ fileIdx <= Len(input) /\ input[fileIdx].reference
          /\ fileIdx' = fileIdx + 1
          /\ UNCHANGED <<pc, rowIdx, stats>>
       \/ /\ fileIdx <= Len(input) /\ ~input[fileIdx].reference
          /\ stats' = IngestStats
          /\ rowIdx' = 1
          /\ pc' = "next_row"
          /\ UNCHANGED fileIdx
    /\ UNCHANGED <<committed, db, sp, seqs, fixedVars, runNo, loc, total_stats, cache,
                   faults, ghostVars>>

\* for i, row in enumerate(reader): SAVEPOINT row_savepoint; at the end of the
\* file the statistics are returned and added to the run's
NextRow ==
    /\ pc = "next_row"
    /\ \/ /\ rowIdx > Len(input[fileIdx].rows)
          /\ total_stats' = AddStats(total_stats, stats)
          /\ fileIdx' = fileIdx + 1
          /\ pc' = "next_file"
          /\ UNCHANGED <<sp, loc, rowStart>>
       \/ /\ rowIdx <= Len(input[fileIdx].rows)
          /\ sp' = TakeSavepoint(db)
          /\ rowStart' = [db |-> db, stats |-> stats]
          /\ loc' = NoLocals
          /\ pc' = "parse"
          /\ UNCHANGED <<total_stats, fileIdx>>
    /\ UNCHANGED <<committed, db, seqs, fixedVars, runNo, rowIdx, stats, cache, faults,
                   hist, srcLog, runHist, runLog>>

\* UPDATE import_batch SET status = 'completed', record_count = ages_created
Finalize ==
    /\ pc = "finalize"
    /\ db' = CompleteBatchRow(db, runNo, total_stats.ages_created)
    /\ runHist' = [runHist EXCEPT !.batch_updates = @ + 1]
    /\ pc' = "commit"
    /\ UNCHANGED <<committed, sp, seqs, fixedVars, runNo, fileIdx, rowIdx, rowVars,
                   total_stats, cache, faults, rowStart, hist, srcLog, runLog>>

\* conn.commit()
Commit ==
    /\ pc = "commit"
    /\ committed' = CommitTransaction(committed, db)
    /\ runLog' = Append(runLog, RunEntry("completed", total_stats,
                                          CommitTransaction(committed, db)))
    /\ pc' = "idle"
    /\ UNCHANGED <<db, sp, seqs, fixedVars, runNo, fileIdx, rowIdx, rowVars, total_stats,
                   cache, faults, rowStart, hist, srcLog, runHist>>

\* an error that the row handler does not absorb (the connection is lost, the
\* ROLLBACK TO SAVEPOINT or the commit fails): conn.rollback(); raise
FatalError ==
    /\ pc # "idle"
    /\ faults < MaxFaults
    /\ faults' = faults + 1
    /\ db' = RollbackTransaction(committed, db)
    /\ runLog' = Append(runLog, RunEntry("failed", total_stats, committed))
    /\ pc' = "idle"
    /\ UNCHANGED <<committed, sp, seqs, fixedVars, runNo, fileIdx, rowIdx, rowVars,
                   total_stats, cache, rowStart, hist, srcLog, runHist>>

\* ------------------------------------------------ process_radiocarbon_row

\* variant: the count is left as it was
BumpNothing(st, f) == st

Bump(st, f) == [st EXCEPT ![f] = @ + 1]

CoordWarning == [kind |-> "Invalid coordinates", row |-> 0]

RowMessage(i) == [kind |-> "Row", row |-> i]

\* lat/lon parsing and validation, then the lab code: a row without one is skipped
ParseRow ==
    /\ pc = "parse"
    /\ LET lat0    == parse_float(CurrentRow.LATITUDE)
           lon0    == parse_float(CurrentRow.LONGITUDE)
           invalid == /\ lat0 # None /\ lon0 # None
                      /\ config.validate_coordinates
                      /\ ~validate_coordinates(lat0, lon0)
           st1     == IF invalid THEN [stats EXCEPT !.errors = Append(@, CoordWarning)]
                      ELSE stats
           code    == parse_lab_code(CurrentRow.LAB_CODE)
       IN  /\ loc' = [loc EXCEPT !.lat = IF invalid THEN None ELSE lat0,
                                 !.lon = IF invalid THEN None ELSE lon0,
                                 !.lab_code = code]
           /\ IF code = NoCode
              THEN stats' = Bump(st1, "ages_skipped") /\ pc' = "release"
              ELSE /\ stats' = st1
                   /\ pc' = IF config.skip_existing THEN "dup_check" ELSE "name_match"
    /\ UNCHANGED <<committed, db, sp, seqs, fixedVars, runNo, fileIdx, rowIdx, total_stats,
                   cache, faults, ghostVars>>

\* if config.skip_existing: a stored determination with this lab code skips the row
DupCheck ==
    /\ pc = "dup_check"
    /\ IF LabCodeExists(db, loc.lab_code)
       THEN stats' = Bump(stats, "ages_skipped") /\ pc' = "release"
       ELSE stats' = stats /\ pc' = "name_match"
    /\ UNCHANGED <<committed, db, sp, seqs, fixedVars, runNo, fileIdx, rowIdx, loc,
                   total_stats, cache, faults, ghostVars>>

\* find_existing_site, first statement: the name match (LIMIT 1, no ORDER BY)
NameMatch ==
    /\ pc = "name_match"
    /\ LET name == SiteNameOf(CurrentRow)
           hits == NameMatches(db, name)
       IN  IF hits # {}
           THEN \E s \in hits :
                  /\ loc' = [loc EXCEPT !.site_id = s.id]
                  /\ IF NeedsBackfill(s, loc.lat, loc.lon)
                     THEN pc' = "backfill" /\ stats' = stats
                     ELSE pc' = "insert_sample" /\ stats' = Bump(stats, "sites_matched")
           ELSE /\ loc' = loc
                /\ stats' = stats
                /\ pc' = IF loc.lat # None /\ loc.lon # None THEN "proximity"
                         ELSE "insert_site"
    /\ UNCHANGED <<committed, db, sp, seqs, fixedVars, runNo, fileIdx, rowIdx, total_stats,
                   cache, faults, ghostVars>>

\* find_existing_site: the matched site has no coordinates and the row has both
Backfill ==
    /\ pc = "backfill"
    /\ db' = UpdateSiteCoords(db, loc.site_id, loc.lat, loc.lon)
    /\ stats' = Bump(stats, "sites_matched")
    /\ pc' = "insert_sample"
    /\ UNCHANGED <<committed, sp, seqs, fixedVars, runNo, fileIdx, rowIdx, loc, total_stats,
                   cache, faults, ghostVars>>

\* find_existing_site, second stage: a stored site within 100 m (LIMIT 1)
Proximity ==
    /\ pc = "proximity"
    /\ LET hits == ProximityMatches(db, loc.lat, loc.lon)
       IN  IF hits # {}
           THEN \E s \in hits :
                  /\ loc' = [loc EXCEPT !.site_id = s.id]
                  /\ stats' = Bump(stats, "sites_matched")
                  /\ pc' = "insert_sample"
           ELSE loc' = loc /\ stats' = stats /\ pc' = "insert_site"
    /\ UNCHANGED <<committed, db, sp, seqs, fixedVars, runNo, fileIdx, rowIdx, total_stats,
                   cache, faults, ghostVars>>

\* INSERT INTO site ... RETURNING id
InsertSite ==
    /\ pc = "insert_site"
    /\ LET id == seqs.site + 1
       IN  /\ seqs' = [seqs EXCEPT !.site = id]
           /\ db' = InsertSiteRow(db, id, SiteNameOf(CurrentRow), loc.lat, loc.lon, runNo)
           /\ loc' = [loc EXCEPT !.site_id = id, !.site_new = TRUE]
    /\ stats' = Bump(stats, "sites_created")
    /\ pc' = "insert_sample"
    /\ UNCHANGED <<committed, sp, fixedVars, runNo, fileIdx, rowIdx, total_stats, cache,
                   faults, ghostVars>>

\* except Exception: ROLLBACK TO SAVEPOINT row_savepoint; the message is kept
RowFailedAfter(d, st) ==
    /\ db' = RollbackToSavepoint(d, sp)
    /\ stats' = [st EXCEPT !.errors = Append(@, RowMessage(rowIdx))]
    /\ hist' = Remember("failed")
    /\ runHist' = [runHist EXCEPT !.failed_rows = @ + 1]
    /\ rowIdx' = rowIdx + 1
    /\ pc' = "next_row"

RowFailed == RowFailedAfter(db, stats)

\* INSERT INTO sample ... RETURNING id; then AGE and ERROR are parsed, which raises
\* into the row handler for a value int() refuses; then the citation, if the row
\* has one
InsertSample ==
    /\ pc = "insert_sample"
    /\ LET id == seqs.sample + 1
       IN  /\ seqs' = [seqs EXCEPT !.sample = id]
           /\ IF AgeRaises(CurrentRow)
              THEN /\ RowFailedAfter(InsertSampleRow(db, id, loc.site_id),
                                     Bump(stats, "samples_created"))
                   /\ UNCHANGED loc
              ELSE /\ db' = InsertSampleRow(db, id, loc.site_id)
                   /\ loc' = [loc EXCEPT !.sample_id = id]
                   /\ stats' = Bump(stats, "samples_created")
                   /\ pc' = IF CurrentRow.SOURCE # <<>> THEN "get_source" ELSE "insert_age"
                   /\ UNCHANGED <<rowIdx, hist, runHist>>
    /\ UNCHANGED <<committed, sp, fixedVars, runNo, fileIdx, total_stats, cache, faults,
                   rowStart, srcLog, runLog>>

\* ReferenceDataCache.get_or_create_source: the cache, else
\* INSERT ... ON CONFLICT DO NOTHING RETURNING id (the sequence advances either way)
GetSource ==
    /\ pc = "get_source"
    /\ LET c == CurrentRow.SOURCE
           id == seqs.source + 1
       IN  IF CacheHit(cache, c)
           THEN /\ loc' = [loc EXCEPT !.source_id = cache[c]]
                /\ srcLog' = LogSourceCall(srcLog, c, 0)
                /\ pc' = "insert_age"
                /\ UNCHANGED <<db, seqs, cache>>
           ELSE /\ seqs' = [seqs EXCEPT !.source = id]
                /\ srcLog' = LogSourceCall(srcLog, c, 1)
                /\ IF SourceByCitation(db, c) = {}
                   THEN /\ db' = InsertSourceRow(db, id, c)
                        /\ cache' = (c :> id) @@ cache
                        /\ loc' = [loc EXCEPT !.source_id = id]
                        /\ pc' = "insert_age"
                   ELSE /\ pc' = "source_lookup"
                        /\ UNCHANGED <<db, cache, loc>>
    /\ UNCHANGED <<committed, sp, fixedVars, runNo, fileIdx, rowIdx, stats, total_stats,
                   faults, rowStart, hist, runHist, runLog>>

\* get_or_create_source: SELECT id FROM data_source WHERE citation = %s
SourceLookup ==
    /\ pc = "source_lookup"
    /\ LET c == CurrentRow.SOURCE
           hits == SourceByCitation(db, c)
       IN  /\ srcLog' = LogSourceStmt(srcLog, c)
           /\ IF hits # {}
              THEN \E x \in hits :
                     /\ cache' = (c :> x.id) @@ cache
                     /\ loc' = [loc EXCEPT !.source_id = x.id]
              ELSE cache' = cache /\ loc' = [loc EXCEPT !.source_id = NullId]
    /\ pc' = "insert_age"
    /\ UNCHANGED <<committed, db, sp, seqs, fixedVars, runNo, fileIdx, rowIdx, stats,
                   total_stats, faults, rowStart, hist, runHist, runLog>>

\* INSERT INTO age_determination: a unique violation raises into the row handler
InsertAge ==
    /\ pc = "insert_age"
    /\ IF UniqueViolation(db, loc.lab_code)
       THEN /\ RowFailed
            /\ UNCHANGED seqs
       ELSE LET id == seqs.age + 1
            IN  /\ seqs' = [seqs EXCEPT !.age = id]
                /\ db' = InsertAgeRow(db, id, loc.sample_id, loc.lab_code, loc.source_id,
                                      runNo, AgeColumns(CurrentRow, loc.lab_code))
                /\ stats' = Bump(stats, "ages_created")
                /\ pc' = "release"
                /\ UNCHANGED <<rowIdx, hist, runHist>>
    /\ UNCHANGED <<committed, sp, fixedVars, runNo, fileIdx, loc, total_stats, cache,
                   faults, rowStart, srcLog, runLog>>

\* RELEASE SAVEPOINT row_savepoint, and on to the next row
Release ==
    /\ pc = "release"
    /\ committed' = ReleaseSavepoint(committed, db)
    /\ hist' = Remember(IF loc.sample_id # NullId THEN "created" ELSE "skipped")
    /\ rowIdx' = rowIdx + 1
    /\ pc' = "next_row"
    /\ UNCHANGED <<db, sp, seqs, fixedVars, runNo, fileIdx, rowVars, total_stats, cache,
                   faults, rowStart, srcLog, runHist, runLog>>

\* the statements of a row; SAVEPOINT and RELEASE fail only with the connection
StatementPcs ==
    {"dup_check", "name_match", "backfill", "proximity", "insert_site", "insert_sample",
     "get_source", "source_lookup", "insert_age"}

\* a statement of the row raises (a constraint, a value the store refuses, a timeout)
RowError ==
    /\ pc \in StatementPcs
    /\ faults < MaxFaults
    /\ faults' = faults + 1
    /\ RowFailed
    /\ UNCHANGED <<committed, sp, seqs, fixedVars, runNo, fileIdx, loc, total_stats, cache,
                   rowStart, srcLog, runLog>>

Next ==
    \/ RunNoFiles
    \/ BeginRun
    \/ NextFile
    \/ NextRow
    \/ ParseRow
    \/ DupCheck
    \/ NameMatch
    \/ Backfill
    \/ Proximity
    \/ InsertSite
    \/ InsertSample
    \/ GetSource
    \/ SourceLookup
    \/ InsertAge
    \/ Release
    \/ RowError
    \/ Finalize
    \/ Commit
    \/ FatalError

Spec == Init /\ [][Next]_vars

\* the configuration as shipped (Config's defaults) over a store that declares the
\* unique constraint on lab_code
InitDefault ==
    /\ Init
    /\ config = [skip_existing |-> TRUE, validate_coordinates |-> TRUE]
    /\ schema = [lab_code_unique |-> TRUE]

SpecDefault == InitDefault /\ [][Next]_vars

\* the same pipeline and configuration, also over the files of RecordDirectories
InitRecords ==
    /\ InitPipeline
    /\ config = [skip_existing |-> TRUE, validate_coordinates |-> TRUE]
    /\ schema = [lab_code_unique |-> TRUE]
    /\ input \in Directories \cup RecordDirectories
    /\ call = NoCall
    /\ runs = NoRuns

SpecRecords == InitRecords /\ [][Next]_vars

\* ------------------------------------------- the normalisers, one call each

CallDetermineMethod ==
    /\ call.fn = "determine_method" /\ ~call.done
    /\ call' = Returned(call, determine_method(call.args[1], call.args[2], call.args[3]))
    /\ UNCHANGED pipelineVars

CallNormalizeMaterial ==
    /\ call.fn = "normalize_material" /\ ~call.done
    /\ call' = Returned(call, normalize_material(call.args[1]))
    /\ UNCHANGED pipelineVars

CallParseDepth ==
    /\ call.fn = "parse_depth" /\ ~call.done
    /\ call' = Returned(call, parse_depth(call.args[1]))
    /\ UNCHANGED pipelineVars

CallParseCitation ==
    /\ call.fn = "parse_citation" /\ ~call.done
    /\ call' = Returned(call, parse_citation(call.args[1]))
    /\ UNCHANGED pipelineVars

InitFields ==
    /\ InitPipeline
    /\ config = [skip_existing |-> TRUE, validate_coordinates |-> TRUE]
    /\ schema = [lab_code_unique |-> TRUE]
    /\ input = <<>>
    /\ runs = NoRuns
    /\ \/ \E m \in MethodTexts, t \in TechniqueTexts, c \in LabCodes :
            call = Pending("determine_method", <<m, t, c>>)
       \/ \E d \in MaterialTexts : call = Pending("normalize_material", <<d>>)
       \/ \E d \in DepthTexts : call = Pending("parse_depth", <<d>>)
       \/ \E t \in CitationTexts : call = Pending("parse_citation", <<t>>)

NextFields ==
    \/ CallDetermineMethod
    \/ CallNormalizeMaterial
    \/ CallParseDepth
    \/ CallParseCitation

SpecFields == InitFields /\ [][NextFields]_vars

\* --------------------------------------------- two runs against one store

Procs == {1, 2}

OtherProc(p) == 3 - p

\* rows of the concurrent runs: a lab code and a site name, no coordinates and no
\* citation, so that a row issues the duplicate check, the name match and the three
\* inserts
ConcurrentPool ==
    { Row(T_OZ1,  T_SA, <<>>, <<>>, <<>>),
      Row(T_Wk2,  T_B,  <<>>, <<>>, <<>>),
      Row(T_oz_1, T_B,  <<>>, <<>>, <<>>) }

ConcurrentFiles == SeqsUpTo(ConcurrentPool, MaxRows) \ {<<>>}

InitRun(rows) ==
    [pc |-> "idle", rows |-> rows, rowIdx |-> 1, own |-> EmptyStore, sp |-> EmptyStore,
     loc |-> NoLocals, stats |-> IngestStats, outcomes |-> <<>>]

\* what a statement of run p sees (READ COMMITTED): the durable rows and the rows
\* its own transaction has inserted
View(p) ==
    [t \in DOMAIN EmptyStore |-> committed[t] \cup runs[p].own[t]]

RowOf(p) == runs[p].rows[runs[p].rowIdx]

\* the unique index makes an insert wait while another open transaction holds an
\* uncommitted row with the same lab code
WaitsForOther(p) ==
    /\ runs[p].pc = "insert_age"
    /\ ~UniqueViolation(View(p), runs[p].loc.lab_code)
    /\ \E a \in runs[OtherProc(p)].own.age : a.lab_code = runs[p].loc.lab_code

\* connect; INSERT INTO import_batch ... 'running'
CBegin(p) ==
    /\ runs[p].pc = "idle"
    /\ runs' = [runs EXCEPT ![p].pc = "next_row", ![p].own = InsertBatchRow(EmptyStore, p)]
    /\ UNCHANGED <<committed, seqs, faults, soloVars>>

\* the next row and its SAVEPOINT, or the end of the file
CNextRow(p) ==
    /\ runs[p].pc = "next_row"
    /\ IF runs[p].rowIdx > Len(runs[p].rows)
       THEN runs' = [runs EXCEPT ![p].pc = "finalize"]
       ELSE runs' = [runs EXCEPT ![p].pc = "parse", ![p].sp = TakeSavepoint(runs[p].own),
                                 ![p].loc = NoLocals]
    /\ UNCHANGED <<committed, seqs, faults, soloVars>>

CParseRow(p) ==
    /\ runs[p].pc = "parse"
    /\ LET code == parse_lab_code(RowOf(p).LAB_CODE)
       IN  runs' = [runs EXCEPT
                      ![p].loc = [@ EXCEPT !.lat = parse_float(RowOf(p).LATITUDE),
                                           !.lon = parse_float(RowOf(p).LONGITUDE),
                                           !.lab_code = code],
                      ![p].stats = IF code = NoCode THEN Bump(@, "ages_skipped") ELSE @,
                      ![p].pc = IF code = NoCode THEN "release"
                                ELSE IF config.skip_existing THEN "dup_check"
                                ELSE "name_match"]
    /\ UNCHANGED <<committed, seqs, faults, soloVars>>

\* SELECT id FROM age_determination WHERE lab_code = %s, on this run's view
CDupCheck(p) ==
    /\ runs[p].pc = "dup_check"
    /\ IF LabCodeExists(View(p), runs[p].loc.lab_code)
       THEN runs' = [runs EXCEPT ![p].stats = Bump(@, "ages_skipped"), ![p].pc = "release"]
       ELSE runs' = [runs EXCEPT ![p].pc = "name_match"]
    /\ UNCHANGED <<committed, seqs, faults, soloVars>>

\* find_existing_site for a row without coordinates: the name match only
CNameMatch(p) ==
    /\ runs[p].pc = "name_match"
    /\ LET hits == NameMatches(View(p), SiteNameOf(RowOf(p)))
       IN  IF hits # {}
           THEN \E s \in hits :
                  runs' = [runs EXCEPT ![p].loc = [@ EXCEPT !.site_id = s.id],
                                       ![p].stats = Bump(@, "sites_matched"),
                                       ![p].pc = "insert_sample"]
           ELSE runs' = [runs EXCEPT ![p].pc = "insert_site"]
    /\ UNCHANGED <<committed, seqs, faults, soloVars>>

CInsertSite(p) ==
    /\ runs[p].pc = "insert_site"
    /\ LET id == seqs.site + 1
       IN  /\ seqs' = [seqs EXCEPT !.site = id]
           /\ runs' = [runs EXCEPT
                         ![p].own = InsertSiteRow(@, id, SiteNameOf(RowOf(p)),
                                                  runs[p].loc.lat, runs[p].loc.lon, p),
                         ![p].loc = [@ EXCEPT !.site_id = id, !.site_new = TRUE],
                         ![p].stats = Bump(@, "sites_created"),
                         ![p].pc = "insert_sample"]
    /\ UNCHANGED <<committed, faults, soloVars>>

\* except Exception: ROLLBACK TO SAVEPOINT row_savepoint, keep the message, go on
CRowFailed(p, why) ==
    runs' = [runs EXCEPT
               ![p].own = RollbackToSavepoint(@, runs[p].sp),
               ![p].stats = [@ EXCEPT !.errors = Append(@, RowMessage(runs[p].rowIdx))],
               ![p].outcomes = Append(@, why),
               ![p].rowIdx = @ + 1,
               ![p].pc = "next_row"]

\* INSERT INTO sample; parsing AGE and ERROR raises into the row handler for a value
\* int() refuses
CInsertSample(p) ==
    /\ runs[p].pc = "insert_sample"
    /\ LET id == seqs.sample + 1
       IN  /\ seqs' = [seqs EXCEPT !.sample = id]
           /\ IF AgeRaises(RowOf(p))
              THEN runs' = [runs EXCEPT
                              ![p].own = RollbackToSavepoint(
                                             InsertSampleRow(@, id, runs[p].loc.site_id),
                                             runs[p].sp),
                              ![p].stats = [Bump(@, "samples_created") EXCEPT
                                              !.errors = Append(@, RowMessage(runs[p].rowIdx))],
                              ![p].outcomes = Append(@, "error"),
                              ![p].rowIdx = @ + 1,
                              ![p].pc = "next_row"]
              ELSE runs' = [runs EXCEPT
                              ![p].own = InsertSampleRow(@, id, runs[p].loc.site_id),
                              ![p].loc = [@ EXCEPT !.sample_id = id],
                              ![p].stats = Bump(@, "samples_created"),
                              ![p].pc = "insert_age"]
    /\ UNCHANGED <<committed, faults, soloVars>>

\* INSERT INTO age_determination: refused when a visible row has the lab code, held
\* back while the other run's uncommitted row has it
CInsertAge(p) ==
    /\ runs[p].pc = "insert_age"
    /\ ~WaitsForOther(p)
    /\ IF UniqueViolation(View(p), runs[p].loc.lab_code)
       THEN CRowFailed(p, "unique_violation") /\ UNCHANGED seqs
       ELSE LET id == seqs.age + 1
            IN  /\ seqs' = [seqs EXCEPT !.age = id]
                /\ runs' = [runs EXCEPT
                              ![p].own = InsertAgeRow(@, id, runs[p].loc.sample_id,
                                                      runs[p].loc.lab_code, NullId, p,
                                                      AgeColumns(RowOf(p),
                                                                 runs[p].loc.lab_code)),
                              ![p].stats = Bump(@, "ages_created"),
                              ![p].pc = "release"]
    /\ UNCHANGED <<committed, faults, soloVars>>

\* both inserts wait for each other: the store ends the deadlock by failing one
CDeadlock(p) ==
    /\ WaitsForOther(p) /\ WaitsForOther(OtherProc(p))
    /\ CRowFailed(p, "deadlock")
    /\ UNCHANGED <<committed, seqs, faults, soloVars>>

\* RELEASE SAVEPOINT row_savepoint
CRelease(p) ==
    /\ runs[p].pc = "release"
    /\ runs' = [runs EXCEPT
                  ![p].outcomes = Append(@, IF runs[p].loc.sample_id # NullId
                                            THEN "created" ELSE "skipped"),
                  ![p].rowIdx = @ + 1,
                  ![p].pc = "next_row"]
    /\ UNCHANGED <<committed, seqs, faults, soloVars>>

\* a statement of the row raises for a reason of the environment's
CRowError(p) ==
    /\ runs[p].pc \in StatementPcs
    /\ faults < MaxFaults
    /\ faults' = faults + 1
    /\ CRowFailed(p, "error")
    /\ UNCHANGED <<committed, seqs, soloVars>>

\* UPDATE import_batch SET status = 'completed', record_count = ages_created
CFinalize(p) ==
    /\ runs[p].pc = "finalize"
    /\ runs' = [runs EXCEPT ![p].own = CompleteBatchRow(@, p, runs[p].stats.ages_created),
                            ![p].pc = "commit"]
    /\ UNCHANGED <<committed, seqs, faults, soloVars>>

\* conn.commit(): the run's rows become durable
CCommit(p) ==
    /\ runs[p].pc = "commit"
    /\ committed' = CommitTransaction(committed, View(p))
    /\ runs' = [runs EXCEPT ![p].own = EmptyStore, ![p].pc = "done"]
    /\ UNCHANGED <<seqs, faults, soloVars>>

\* an unrecovered error: conn.rollback(); raise
CFatalError(p) ==
    /\ runs[p].pc \notin {"idle", "done", "aborted"}
    /\ faults < MaxFaults
    /\ faults' = faults + 1
    /\ runs' = [runs EXCEPT ![p].own = EmptyStore, ![p].pc = "aborted"]
    /\ UNCHANGED <<committed, seqs, soloVars>>

InitConcurrent ==
    /\ InitPipeline
    /\ config = [skip_existing |-> TRUE, validate_coordinates |-> TRUE]
    /\ schema = [lab_code_unique |-> TRUE]
    /\ input = <<>>
    /\ call = NoCall
    /\ runs \in [Procs -> {InitRun(rows) : rows \in ConcurrentFiles}]

NextConcurrent ==
    \E p \in Procs :
        \/ CBegin(p)
        \/ CNextRow(p)
        \/ CParseRow(p)
        \/ CDupCheck(p)
        \/ CNameMatch(p)
        \/ CInsertSite(p)
        \/ CInsertSample(p)
        \/ CInsertAge(p)
        \/ CDeadlock(p)
        \/ CRelease(p)
        \/ CRowError(p)
        \/ CFinalize(p)
        \/ CCommit(p)
        \/ CFatalError(p)

SpecConcurrent == InitConcurrent /\ [][NextConcurrent]_vars

\* ----------------------------------------------------------------- claims

Last(q) == q[Len(q)]

RowFailures(st) == Len(SelectSeq(st.errors, LAMBDA e : e.kind = "Row"))

\* C1: per-record atomicity.  When a row raises after its savepoint was taken, the
\* store after the rollback is the store as the previous rows left it (nothing the
\* failed row wrote remains, everything earlier is present and unchanged), nothing
\* becomes durable, and the loop goes on with the next row of the same file.
C1_RowAtomicity ==
    [][ (pc \in StatementPcs /\ pc' = "next_row")
        => /\ db' = rowStart.db
           /\ committed' = committed
           /\ rowIdx' = rowIdx + 1 /\ fileIdx' = fileIdx
           /\ RowFailures(stats') = RowFailures(stats) + 1 ]_vars

\* a row failed after inserting its site, behind a row that had created entities
W_C1 ==
    /\ pc = "next_row" /\ Len(hist) = 2
    /\ hist[1].outcome = "created" /\ hist[2].outcome = "failed" /\ hist[2].site_new
    /\ db.age # {} /\ db = rowStart.db

Completed(i) == runLog[i].outcome = "completed"

CodeKey(code) == Upper(RemoveWhitespace(code))

UniqueCodes(d) ==
    \A a1 \in d.age : \A a2 \in d.age : CodeKey(a1.lab_code) = CodeKey(a2.lab_code) => a1 = a2

\* C3: with skip_existing, no two stored determinations have the same normalised
\* laboratory code, in the open transaction and in the durable store, whether or not
\* the store declares the unique constraint.
C3_LabCodeUnique == config.skip_existing => UniqueCodes(db) /\ UniqueCodes(committed)

\* a row whose raw code differs from a stored one in case and whitespace was skipped
W_C3 ==
    /\ config.skip_existing /\ ~schema.lab_code_unique
    /\ pc = "release" /\ CurrentRow.LAB_CODE = T_oz_1 /\ loc.sample_id = NullId
    /\ \E a \in db.age : a.lab_code = T_OZ1 /\ a.lab_code # CurrentRow.LAB_CODE

StatementStep == pc \in StatementPcs /\ pc' \notin {"next_row", "idle"}

\* C4, as stated: a statement of row processing never changes a stored site's
\* latitude or longitude that was non-null before it (rollbacks aside).
CE_C4_WriteOnce ==
    [][ StatementStep
        => \A s \in db.site : \A t \in db'.site :
             t.id = s.id
             => /\ s.latitude # None => t.latitude = s.latitude
                /\ s.longitude # None => t.longitude = s.longitude ]_vars

\* lower case, no whitespace: the key of "equal ignoring letter case and whitespace"
NameKey(name) == Lower(RemoveWhitespace(name))

SuppliesNoCoordinates(row) == row.LATITUDE = <<>> /\ row.LONGITUDE = <<>>

SuppliesValidCoordinates(row) ==
    validate_coordinates(parse_float(row.LATITUDE), parse_float(row.LONGITUDE))

\* two rows in succession, both stored; the first created its site and gave no
\* coordinates, the second has the same normalised site name and a valid pair
BackfillCase ==
    /\ pc = "next_row" /\ Len(hist) = 2
    /\ hist[1].outcome = "created" /\ hist[2].outcome = "created"
    /\ hist[1].site_new
    /\ SuppliesNoCoordinates(hist[1].row) /\ SuppliesValidCoordinates(hist[2].row)
    /\ NameKey(SiteNameOf(hist[1].row)) = NameKey(SiteNameOf(hist[2].row))

\* C5, as stated: in that case exactly one site is stored for the name, with the
\* latitude and longitude of the second row.
CE_C5_Backfill ==
    BackfillCase
    => \E s \in db.site :
         /\ \A t \in db.site :
              NameKey(t.site_name) = NameKey(SiteNameOf(hist[2].row)) => t = s
         /\ NameKey(s.site_name) = NameKey(SiteNameOf(hist[2].row))
         /\ s.latitude = parse_float(hist[2].row.LATITUDE)
         /\ s.longitude = parse_float(hist[2].row.LONGITUDE)

\* C6, as stated: no two stored sites have names that are equal ignoring letter
\* case and whitespace.
CE_C6_NameDedup ==
    \A s \in db.site : \A t \in db.site :
        NameKey(s.site_name) = NameKey(t.site_name) => s = t

\* C7: while no row of the run has failed, the store holds at most one data_source
\* per citation text, every cache entry and every id handed to a row is the id of
\* the row with that text, and all statements for a text are issued by the first
\* call for it in the run (an insert, and a lookup when the insert conflicts).
C7_SourceGetOrCreate ==
    (pc # "idle" /\ runHist.failed_rows = 0)
    => /\ \A x \in db.source : \A y \in db.source : x.citation = y.citation => x = y
       /\ \A c \in DOMAIN cache : \E x \in db.source : x.citation = c /\ x.id = cache[c]
       /\ (pc = "insert_age" /\ CurrentRow.SOURCE # <<>>)
          => \E x \in db.source : x.citation = CurrentRow.SOURCE /\ x.id = loc.source_id
       /\ \A c \in Citations :
            /\ srcLog[c].stmts = srcLog[c].first
            /\ srcLog[c].first <= 2
            /\ srcLog[c].calls > 0 /\ pc \notin {"source_lookup"} => c \in DOMAIN cache

\* a text stored by an earlier run: the first call inserted in vain and looked it
\* up, a second call in the same run was answered from the cache
W_C7 ==
    /\ pc = "insert_age" /\ runHist.failed_rows = 0
    /\ \E c \in Citations :
         /\ srcLog[c].calls = 2 /\ srcLog[c].first = 2 /\ srcLog[c].stmts = 2
         /\ \E x \in committed.source : x.citation = c /\ x.id = loc.source_id

\* C8: nothing is durable before the final commit, also for rows whose savepoint
\* was released; a run that aborts leaves the durable store as it was before the
\* run, the connection's writes are gone, and the failure reaches the caller.
C8_FatalDiscardsRun ==
    /\ pc # "idle" => committed = runHist.store_before
    /\ (pc = "idle" /\ runLog # <<>> /\ Last(runLog).outcome = "failed")
       => /\ committed = runHist.store_before
          /\ db = committed
          /\ \A b \in committed.batch : b.id # runNo

\* a run aborted after a row had been stored and its savepoint released
W_C8 ==
    /\ pc = "idle" /\ runLog # <<>> /\ Last(runLog).outcome = "failed"
    /\ hist # <<>> /\ hist[1].outcome = "created" /\ hist[1].site_new
    /\ committed.site = {} /\ committed.batch = {}

BatchRows(d, id) == {b \in d.batch : b.id = id}

AgesOfBatch(d, id) == Cardinality({a \in d.age : a.batch = id})

\* C9: a run that opens its transaction inserts one import_batch row, 'running'
\* until the run's end, updates it once to 'completed', and commits; every batch row
\* of the durable store is 'completed' with record_count the number of stored
\* determinations of that batch.
C9_BatchLifecycle ==
    /\ pc # "idle"
       => /\ runHist.batch_inserts = 1
          /\ Cardinality(BatchRows(db, runNo)) = 1
          /\ runHist.batch_updates = (IF pc = "commit" THEN 1 ELSE 0)
          /\ \A b \in BatchRows(db, runNo) :
               b.status = (IF pc = "commit" THEN "completed" ELSE "running")
    /\ \A b \in committed.batch :
         b.status = "completed" /\ b.record_count = IntVal(AgesOfBatch(committed, b.id))
    /\ \A i \in DOMAIN runLog :
         Completed(i) => Cardinality(BatchRows(committed, runLog[i].batch)) = 1

\* a committed batch of a run in which one row was stored and another failed
W_C9 ==
    /\ pc = "idle" /\ runLog # <<>> /\ Completed(Len(runLog))
    /\ RowFailures(Last(runLog).stats) = 1
    /\ \E b \in committed.batch : b.id = runNo /\ b.record_count = IntVal(1)

\* fewer than three characters that are not whitespace
TooShort(code) == Len(RemoveWhitespace(code)) < MinLabCodeLen

\* C10: a row whose laboratory code is absent or too short issues no statement: it
\* goes from parsing to the release of its savepoint with the skip count raised by
\* one, the other counts and the store (coordinates included) as they were.
C10_InvalidCodeSkips ==
    (pc \in StatementPcs \cup {"release"} /\ TooShort(CurrentRow.LAB_CODE))
    => /\ pc = "release"
       /\ db = rowStart.db
       /\ stats.ages_skipped = rowStart.stats.ages_skipped + 1
       /\ stats.ages_created = rowStart.stats.ages_created
       /\ stats.sites_created = rowStart.stats.sites_created
       /\ stats.sites_matched = rowStart.stats.sites_matched
       /\ stats.samples_created = rowStart.stats.samples_created
       /\ RowFailures(stats) = RowFailures(rowStart.stats)

\* such a row, with coordinates of its own, behind a stored row
W_C10 ==
    /\ pc = "release" /\ TooShort(CurrentRow.LAB_CODE) /\ CurrentRow.LAB_CODE # <<>>
    /\ CurrentRow.LATITUDE # <<>> /\ db.site # {} /\ db.age # {}
    /\ stats.ages_skipped = 1 /\ stats.ages_created = 1

\* both coordinates parse and the pair is outside the configured bounds
OutOfBounds(row) ==
    LET lat == parse_float(row.LATITUDE)
        lon == parse_float(row.LONGITUDE)
    IN  /\ lat.k = "num" /\ lon.k = "num"
        /\ \/ lat.v < lat_min \/ lat.v > lat_max
           \/ lon.v < lon_min \/ lon.v > lon_max

RowInProgress == pc \in StatementPcs \cup {"release"}

NewCode(row) ==
    /\ parse_lab_code(row.LAB_CODE) # NoCode
    /\ ~LabCodeExists(rowStart.db, parse_lab_code(row.LAB_CODE))

\* C11: with validation on, a row whose coordinate pair is out of bounds gets a
\* warning appended to the statistics and goes on without coordinates: no stored
\* site takes a coordinate from it (a site it creates has none), and if its lab code
\* is valid and new the row reaches its end with a sample and a determination
\* stored, failing only when a statement raises for another reason.
C11_OutOfBoundsNulled ==
    /\ [](  (config.validate_coordinates /\ RowInProgress /\ OutOfBounds(CurrentRow))
           => /\ Len(stats.errors) = Len(rowStart.stats.errors) + 1
              /\ Last(stats.errors) = CoordWarning
              /\ loc.lat = None /\ loc.lon = None
              /\ \A s \in db.site :
                   IF \E t \in rowStart.db.site : t.id = s.id
                   THEN s \in rowStart.db.site
                   ELSE s.latitude = None /\ s.longitude = None
              /\ (pc = "release" /\ NewCode(CurrentRow))
                 => /\ \E x \in db.sample \ rowStart.db.sample :
                         x.id = loc.sample_id /\ x.site_id = loc.site_id
                    /\ \E a \in db.age \ rowStart.db.age :
                         a.sample_id = loc.sample_id /\ a.lab_code = loc.lab_code )
    /\ [][ (config.validate_coordinates /\ pc \in StatementPcs /\ OutOfBounds(CurrentRow)
            /\ NewCode(CurrentRow) /\ pc' = "next_row")
           => faults' = faults + 1 ]_vars

\* an out-of-bounds row matched a stored site that has no coordinates, left it so,
\* and stored its sample and determination
W_C11 ==
    /\ config.validate_coordinates /\ pc = "release" /\ OutOfBounds(CurrentRow)
    /\ NewCode(CurrentRow) /\ ~loc.site_new
    /\ \E s \in db.site : s.id = loc.site_id /\ s.latitude = None /\ s.longitude = None
    /\ \E a \in db.age : a.lab_code = loc.lab_code /\ a.sample_id = loc.sample_id
    /\ Last(stats.errors) = CoordWarning

\* C16, as stated: while a run is in progress every entry of the source cache is the
\* id of a stored data_source row with that citation, and every stored
\* determination that has a source reference refers to a stored row.
CE_C16_CacheCoherent ==
    pc # "idle"
    => /\ \A c \in DOMAIN cache : \E x \in db.source : x.citation = c /\ x.id = cache[c]
       /\ \A a \in db.age :
            a.source_id # NullId => \E x \in db.source : x.id = a.source_id

Ids(rows) == {r.id : r \in rows}

PersistedBy(table) == Cardinality(Ids(committed[table]) \ Ids(runHist.store_before[table]))

\* C17, as stated: when a run has committed, its sites_created, samples_created and
\* ages_created totals are the numbers of site, sample and age_determination rows
\* the run added to the durable store.
CE_C17_StatsMatchStore ==
    (pc = "idle" /\ runLog # <<>> /\ Last(runLog).outcome = "completed")
    => /\ total_stats.sites_created = PersistedBy("site")
       /\ total_stats.samples_created = PersistedBy("sample")
       /\ total_stats.ages_created = PersistedBy("age")

\* C18, as stated: with validation on, every stored site has both coordinates null
\* or both set and inside the configured bounds.
CE_C18_ValidPair ==
    config.validate_coordinates
    => \A s \in db.site :
         \/ s.latitude = None /\ s.longitude = None
         \/ /\ s.latitude.k = "num" /\ s.longitude.k = "num"
            /\ lat_min <= s.latitude.v /\ s.latitude.v <= lat_max
            /\ lon_min <= s.longitude.v /\ s.longitude.v <= lon_max

\* the stored sites whose name equals the row's ignoring letter case and whitespace
NameIdentityMatches(d, row) ==
    {s \in d.site : NameKey(s.site_name) = NameKey(SiteNameOf(row))}

\* C20, as stated: the resolver returns a name-identity match whenever one exists
\* (whatever the proximity of other sites), tries proximity only without a name
\* match and with both coordinates, and a site is created exactly when neither
\* stage matches.
CE_C20_StageOrder ==
    [][ /\ (pc = "name_match" /\ pc' # "next_row" /\ pc' # "idle"
            /\ NameIdentityMatches(db, CurrentRow) # {})
           => /\ pc' \in {"backfill", "insert_sample"}
              /\ loc'.site_id \in Ids(NameIdentityMatches(db, CurrentRow))
        /\ pc' = "proximity"
           => /\ pc = "name_match" /\ NameIdentityMatches(db, CurrentRow) = {}
              /\ loc.lat # None /\ loc.lon # None
        /\ pc' = "insert_site"
           => /\ NameIdentityMatches(db, CurrentRow) = {}
              /\ pc = "proximity" => ProximityMatches(db, loc.lat, loc.lon) = {}
              /\ pc = "name_match" => (loc.lat = None \/ loc.lon = None)
        /\ (pc = "proximity" /\ pc' = "insert_sample")
           => loc'.site_id \in Ids(ProximityMatches(db, loc.lat, loc.lon)) ]_vars

LuminescenceCodes == {"OSL", "TL", "IRSL"}

OtherTechniqueCodes == {"U-TH", "ESR", "AAR"}

\* the codes whose keywords occur in a text
KeywordCodes(text) ==
    {METHOD_MAPPING[i][2] :
       i \in {j \in DOMAIN METHOD_MAPPING : Contains(text, METHOD_MAPPING[j][1])}}

CombinedText(c) == Lower(c.args[1] \o <<" ">> \o c.args[2])

CE_C13_BurntBone ==
    (call.fn = "normalize_material" /\ call.done
       /\ Contains(Lower(call.args[1]), <<"b","u","r","n","t"," ","b","o","n","e">>))
    => call.result = "BONE_BURNT"

HasHyphen(t) == Contains(t, <<"-">>)

PlainNumber(t) == t # <<>> /\ UnsignedFloat(t).k = "num"

HasDigit(t) == \E i \in DOMAIN t : IsDigit(t[i])

\* C14: of a range "A-B" with numeric A the depth is A; of a single number it is
\* that number; of a text without a digit (such as "surface") it is absent.
\* "10-20" gives 10.
C14_ParseDepth ==
    (call.fn = "parse_depth" /\ call.done)
    => LET t == Strip(call.args[1])
       IN  /\ (HasHyphen(t) /\ PlainNumber(Strip(BeforeHyphen(t))))
              => call.result = UnsignedFloat(Strip(BeforeHyphen(t)))
           /\ (~HasHyphen(t) /\ PlainNumber(t)) => call.result = UnsignedFloat(t)
           /\ ~HasDigit(t) => call.result = None
           /\ t = <<"1","0","-","2","0">> => call.result = Num(100)
           /\ t = <<"1","2",".","5">> => call.result = Num(125)
           /\ t = <<"s","u","r","f","a","c","e">> => call.result = None

\* the range 10-20 parsed to its top bound
W_C14 ==
    /\ call.fn = "parse_depth" /\ call.done
    /\ call.args[1] = <<"1","0","-","2","0">> /\ call.result = Num(100)

YearPositions(t) == {i \in DOMAIN t : YearAt(t, i)}

\* C15, as stated in its example: "Smith, J. 1998. Excavations at X." gives the
\* year 1998 and the author "Smith, J." with its last period.
CE_C15_AuthorKeepsPeriod ==
    (call.fn = "parse_citation" /\ call.done /\ call.args[1] = T_SmithExcavations)
    => /\ call.result.year = IntVal(1998)
       /\ call.result.author = <<"S","m","i","t","h",","," ","J",".">>

\* C15, amended: with a year 19xx or 20xx standing as a word of its own, the year
\* is the first such and the author the trimmed text before it without its trailing
\* punctuation (none when nothing is left); without one, author and year are
\* absent; the citation is the whole text.  The example gives 1998 and "Smith, J".
C15_ParseCitation ==
    (call.fn = "parse_citation" /\ call.done)
    => LET t  == call.args[1]
           at == Least(YearPositions(t))
       IN  /\ call.result.citation = t
           /\ YearPositions(t) = {}
              => call.result.author = <<>> /\ call.result.year = None
           /\ YearPositions(t) # {}
              => /\ call.result.year = IntVal(DigitsVal(SubSeq(t, at, at + 3)))
                 /\ call.result.author
                      = StripTrailingPunctuation(Strip(SubSeq(t, 1, at - 1)))
           /\ t = T_SmithExcavations
              => /\ call.result.year = IntVal(1998)
                 /\ call.result.author = <<"S","m","i","t","h",","," ","J">>

\* the example citation, parsed
W_C15 ==
    /\ call.fn = "parse_citation" /\ call.done /\ call.args[1] = T_SmithExcavations
    /\ call.result.year = IntVal(1998) /\ call.result.author = <<"S","m","i","t","h",","," ","J">>

\* every determination there is: durable, or uncommitted in either run
AllAges == [age |-> committed.age \cup runs[1].own.age \cup runs[2].own.age]

\* a determination with run p's lab code has been inserted by the other run
\* (durable by now, or still uncommitted)
InsertedByOther(p) ==
    \E a \in committed.age \cup runs[OtherProc(p)].own.age :
        a.batch = OtherProc(p) /\ a.lab_code = runs[p].loc.lab_code

RowFailedStep(p) ==
    /\ runs'[p].pc = "next_row"
    /\ runs'[p].own = runs[p].sp
    /\ runs'[p].rowIdx = runs[p].rowIdx + 1
    /\ RowFailures(runs'[p].stats) = RowFailures(runs[p].stats) + 1

\* C19: with the unique constraint, two interleaved runs never hold two
\* determinations with the same normalised lab code, durable or not; a run that is
\* past its duplicate check when the other run has inserted the same code completes
\* its INSERT only as a row failure, after which its uncommitted rows are those of
\* its savepoint (no site, no sample of that row) and it is at its next row.
C19_ConcurrentUnique ==
    /\ [](runs # NoRuns => UniqueCodes(AllAges) /\ UniqueCodes(committed))
    /\ [][ runs # NoRuns
           => \A p \in Procs :
                (runs[p].pc = "insert_age" /\ runs'[p].pc \notin {"insert_age", "aborted"})
                => IF InsertedByOther(p)
                   THEN RowFailedStep(p)
                   ELSE runs'[p].pc = "release" \/ RowFailedStep(p) ]_vars

\* run 1 passed its duplicate check for a code that run 2 then committed: its row
\* failed on the constraint, left nothing behind, and its next row was stored
W_C19 ==
    /\ runs # NoRuns
    /\ runs[1].outcomes = <<"unique_violation", "created">>
    /\ runs[1].pc = "next_row" /\ runs[2].pc = "done"
    /\ \E a \in committed.age :
         a.batch = 2 /\ a.lab_code = parse_lab_code(runs[1].rows[1].LAB_CODE)
    /\ Cardinality(runs[1].own.site) = 1 /\ Cardinality(runs[1].own.sample) = 1
    /\ Cardinality(runs[1].own.age) = 1

\* an age_determination with the row's normalised lab code was stored when the row began
StoredAtRowStart(row) == \E a \in rowStart.db.age : a.lab_code = CodeKey(row.LAB_CODE)

SameCounts(st, before) ==
    /\ st.ages_created = before.ages_created
    /\ st.sites_created = before.sites_created
    /\ st.sites_matched = before.sites_matched
    /\ st.samples_created = before.samples_created
    /\ RowFailures(st) = RowFailures(before)

\* C21: with skip_existing, a row whose normalised lab code belongs to a stored
\* determination issues the duplicate check and nothing else: it reaches the release
\* of its savepoint with the skip count raised by one and the other counts as they
\* were, and no step of it changes a site (a matching site's null coordinates stay
\* null even when the row has coordinates), a sample, a determination, a data source
\* or the source cache.
C21_DuplicateSkipWriteFree ==
    /\ []( (config.skip_existing /\ RowInProgress /\ StoredAtRowStart(CurrentRow))
           => /\ pc \in {"dup_check", "release"}
              /\ db = rowStart.db
              /\ pc = "release"
                 => /\ stats.ages_skipped = rowStart.stats.ages_skipped + 1
                    /\ SameCounts(stats, rowStart.stats) )
    /\ [][ (config.skip_existing /\ pc \in {"parse", "dup_check", "release"}
            /\ StoredAtRowStart(CurrentRow) /\ pc' # "idle")
           => db' = db /\ cache' = cache /\ seqs' = seqs ]_vars

\* a duplicate with coordinates was skipped while the stored site of its name has
\* none, and the cache holds a source
W_C21 ==
    /\ config.skip_existing /\ pc = "release" /\ StoredAtRowStart(CurrentRow)
    /\ loc.lat # None /\ loc.lon # None
    /\ \E s \in db.site :
         /\ SqlNameKey(s.site_name) = SqlNameKey(SiteNameOf(CurrentRow))
         /\ s.latitude = None /\ s.longitude = None
    /\ DOMAIN cache # {}
    /\ stats.ages_skipped = rowStart.stats.ages_skipped + 1 /\ db = rowStart.db

Outcomes(st) == st.ages_created + st.ages_skipped + RowFailures(st)

\* C22: every row of a file is counted once, as created, as skipped or as failed.
\* Between rows the three counts of the file add up to the number of rows read, so
\* when the file has been read they add up to its number of rows; the step that ends
\* a row raises exactly one of the three, by one, and never lowers another.
C22_OneOutcome ==
    /\ [](pc \in {"next_row", "parse"} => Outcomes(stats) = rowIdx - 1)
    /\ []((pc = "next_row" /\ rowIdx > Len(input[fileIdx].rows))
          => Outcomes(stats) = Len(input[fileIdx].rows))
    /\ [][ (RowInProgress \/ pc = "parse")
           => /\ stats'.ages_created >= stats.ages_created
              /\ stats'.ages_skipped >= stats.ages_skipped
              /\ RowFailures(stats') >= RowFailures(stats)
              /\ pc' = "next_row" => Outcomes(stats') = Outcomes(rowStart.stats) + 1 ]_vars

\* a file of two rows has been read: one row was stored, one failed
W_C22 ==
    /\ pc = "next_row" /\ rowIdx = 3 /\ Len(input[fileIdx].rows) = 2
    /\ stats.ages_created = 1 /\ stats.ages_skipped = 0 /\ RowFailures(stats) = 1

\* C23, as stated: parse_int of AGE and of ERROR is a number or absent, whatever the
\* text, so the step that parses them (after the sample's insert) ends the row as a
\* failure only when the environment raises.
CE_C23_ParsingTotal ==
    [][ pc = "insert_sample"
        => /\ parse_int(CurrentRow.AGE).k \in {"int", "none"}
           /\ parse_int(CurrentRow.ERROR).k \in {"int", "none"}
           /\ pc' = "next_row" => faults' = faults + 1 ]_vars

\* the row has been stored: its sample and its determination are in the store
RowStored == pc = "release" /\ loc.sample_id # NullId

\* the determination of the row that has just been stored
StoredAge == CHOOSE a \in db.age : a.sample_id = loc.sample_id

\* C24, as stated: a stored determination classified OSL, TL or IRSL whose AGE and
\* ERROR parse to integers a and e (0 included) has luminescence age a/1000 and error
\* e/1000 and no radiocarbon age or error; any other has no luminescence fields.
CE_C24_LuminescenceAges ==
    RowStored
    => LET a == parse_int(CurrentRow.AGE)
           e == parse_int(CurrentRow.ERROR)
       IN  IF StoredAge.method \in LuminescenceCodes
           THEN (a.k = "int" /\ e.k = "int")
                => /\ StoredAge.lum_age_ka = Thousandths(a.v)
                   /\ StoredAge.lum_error_ka = Thousandths(e.v)
                   /\ StoredAge.c14_age = None /\ StoredAge.c14_error = None
           ELSE StoredAge.lum_age_ka = None /\ StoredAge.lum_error_ka = None

MentionsReject(notes) == Contains(Lower(notes), <<"r","e","j","e","c","t">>)

\* C26, as stated: a stored determination is rejected exactly when the row's
\* DATE_ISSUES is not the empty text or its NOTES contain "reject" in any letter
\* case; the reason of a rejected one is DATE_ISSUES, of another it is absent.
CE_C26_RejectedNonEmpty ==
    RowStored
    => /\ StoredAge.is_rejected
            <=> (CurrentRow.DATE_ISSUES # <<>> \/ MentionsReject(CurrentRow.NOTES))
       /\ StoredAge.rejection_reason
            = (IF StoredAge.is_rejected THEN Text(CurrentRow.DATE_ISSUES) ELSE None)

HasNonSpace(t) == \E i \in DOMAIN t : ~IsSpace(t[i])

\* C26, amended: a stored determination is rejected exactly when the row's
\* DATE_ISSUES has a character that is not whitespace or its NOTES contain "reject"
\* in any letter case; the reason of a rejected one is DATE_ISSUES as given (the
\* empty text when only the notes reject it), of another it is absent.
C26_Rejection ==
    RowStored
    => /\ StoredAge.is_rejected
            <=> (HasNonSpace(CurrentRow.DATE_ISSUES) \/ MentionsReject(CurrentRow.NOTES))
       /\ StoredAge.rejection_reason
            = (IF StoredAge.is_rejected THEN Text(CurrentRow.DATE_ISSUES) ELSE None)

\* a row without date issues was rejected for its notes: the reason is the empty text
W_C26 ==
    /\ RowStored /\ CurrentRow.DATE_ISSUES = <<>> /\ MentionsReject(CurrentRow.NOTES)
    /\ CurrentRow.NOTES # Lower(CurrentRow.NOTES)
    /\ StoredAge.is_rejected /\ StoredAge.rejection_reason = Text(<<>>)

RECURSIVE AllRows(_)
AllRows(dir) == IF dir = <<>> THEN <<>> ELSE Head(dir).rows \o AllRows(Tail(dir))

\* the input is rows without a site name, with valid lab codes that all differ
UnnamedInput ==
    LET rows == AllRows(input)
    IN  /\ rows # <<>>
        /\ \A i \in DOMAIN rows :
             /\ rows[i].SITE = <<>>
             /\ Len(CodeKey(rows[i].LAB_CODE)) >= MinLabCodeLen
             /\ \A j \in DOMAIN rows : i # j => CodeKey(rows[i].LAB_CODE) # CodeKey(rows[j].LAB_CODE)

HasPair(s) == s.latitude # None /\ s.longitude # None

\* the row has a pair the run accepts: both parse, inside the bounds when the
\* configuration validates
AcceptedPair(row) ==
    IF config.validate_coordinates THEN SuppliesValidCoordinates(row)
    ELSE parse_float(row.LATITUDE) # None /\ parse_float(row.LONGITUDE) # None

\* the row has been resolved to a site
Resolved == pc \in {"insert_sample", "get_source", "source_lookup", "insert_age"} \/ RowStored

\* C25: when all rows lack a site name (with valid lab codes that differ), at most
\* one site is stored, named "Unknown Site", and every row that is resolved is
\* resolved to it, whatever its coordinates: the first row creates it and the others
\* match it.  A row with a valid pair leaves the site with a pair; a pair the site
\* has is never replaced; and the site gets a pair only from a row with a valid pair,
\* which is then that row's: the site's coordinates are those of the first resolved
\* row that had a valid pair.
C25_UnknownSite ==
    /\ []( UnnamedInput
           => /\ Cardinality(db.site) <= 1
              /\ \A s \in db.site : s.site_name = UnknownSite
              /\ \A x \in db.sample : \E s \in db.site : s.id = x.site_id
              /\ Resolved
                 => \E s \in db.site :
                      /\ s.id = loc.site_id
                      /\ AcceptedPair(CurrentRow) => HasPair(s)
              /\ (pc = "next_row" /\ runNo = 1 /\ RowFailures(stats) = 0 /\ rowIdx > 1)
                 => /\ stats.sites_created = 1
                    /\ stats.sites_matched = rowIdx - 2 )
    /\ [][ (UnnamedInput /\ StatementStep)
           => /\ \A s \in db.site : HasPair(s) => s \in db'.site
              /\ \A t \in db'.site :
                   (HasPair(t) /\ t \notin db.site)
                   => /\ AcceptedPair(CurrentRow)
                      /\ t.id = loc'.site_id
                      /\ t.latitude = parse_float(CurrentRow.LATITUDE)
                      /\ t.longitude = parse_float(CurrentRow.LONGITUDE) ]_vars

\* two rows without a site name and with different valid pairs were stored: one site,
\* created by the first and matched by the second, with the first row's pair
W_C25 ==
    /\ UnnamedInput /\ pc = "next_row" /\ rowIdx = 3 /\ runNo = 1
    /\ AcceptedPair(AllRows(input)[1])
    /\ AcceptedPair(AllRows(input)[2])
    /\ AllRows(input)[1].LATITUDE # AllRows(input)[2].LATITUDE
    /\ stats.ages_created = 2 /\ stats.sites_created = 1 /\ stats.sites_matched = 1
    /\ \E s \in db.site :
         /\ db.site = {s} /\ s.site_name = UnknownSite
         /\ s.latitude = parse_float(AllRows(input)[1].LATITUDE)
         /\ s.longitude = parse_float(AllRows(input)[1].LONGITUDE)

\* the name without its punctuation (what is neither a word character nor whitespace)
DropPunctuation(name) == SelectSeq(name, LAMBDA c : IsWordChar(c) \/ IsSpace(c))

\* two rows in succession were stored, and their site names differ in punctuation
\* only
PunctuationCase ==
    /\ pc = "next_row" /\ Len(hist) = 2
    /\ hist[1].outcome = "created" /\ hist[2].outcome = "created"
    /\ SiteNameOf(hist[1].row) # SiteNameOf(hist[2].row)
    /\ DropPunctuation(SiteNameOf(hist[1].row)) = DropPunctuation(SiteNameOf(hist[2].row))
    /\ normalize_site_name(SiteNameOf(hist[1].row)) = normalize_site_name(SiteNameOf(hist[2].row))

\* C27, as stated: in that case the second row is resolved to the first row's site:
\* it is counted as matched and creates no site.
CE_C27_PunctuationIgnored ==
    PunctuationCase
    => /\ hist[2].site_id = hist[1].site_id
       /\ ~hist[2].site_new
       /\ Cardinality({s \in db.site : s.id \in {hist[1].site_id, hist[2].site_id}}) = 1

====
